---------------------------- MODULE Spec2Model ----------------------------
(***************************************************************************)
(* Verification model of the stagdeck theme and layout core.               *)
(*                                                                         *)
(* The module holds one state machine per component:                       *)
(*   SpecLoad / SpecLoadConc  ThemeLoader (theme/loader.py)                *)
(*   SpecLoadAgain            ThemeLoader, a failing and a valid theme     *)
(*   SpecCtx                  ThemeContext (theme/context.py)              *)
(*   SpecSlideCtx             Slide.override on a ThemeContext (slide.py)  *)
(*   SpecTheme                Theme and ThemeCache (theme/theme.py)        *)
(*   SpecEval                 SafeExpressionEvaluator (theme/evaluator.py) *)
(*   SpecPath                 path security (utils/paths.py)               *)
(*   SpecSearch               theme search paths (theme/loader.py)         *)
(*   SpecLayout               content analysis and layout (slide_layout.py)*)
(*   SpecMd                   MarkdownParser (markdown_parser.py)          *)
(*   SpecLru                  LRUCache (theme/cache.py)                    *)
(*   SpecDeck                 SlideDeck (slide_deck.py)                    *)
(*   SpecDeckNames            SlideDeck, callers with distinct names       *)
(*   SpecWatch                FileWatcher (file_watcher.py)                *)
(*   SpecViewer               DeckViewer (viewer.py)                       *)
(* Each specification drives the variables of its component and leaves the *)
(* others in their idle value.                                             *)
(***************************************************************************)
EXTENDS Integers, Sequences, FiniteSets, TLC

VARIABLES
    files,          \* loader: theme files on disk, path -> content
    loading_stack,  \* loader: ThemeLoader._loading_stack (shared by all calls)
    calls,          \* loader: one record per call chain of load_theme_data
    ctx,            \* context: the ThemeContext (themes, overrides, cache)
    ctx_ret,        \* context: key and value of the get() just made, if any
    ctx_phase,      \* context: progress of get / clear slide / get / clear deck / get
    ev_in,          \* evaluator: variable table and expression of one evaluate()
    ev_out,         \* evaluator: what evaluate() returned or raised
    thm,            \* Theme: variables, computed (in dict order), layouts
    tcache,         \* Theme._cache: computed, expression and layout entries
    th_ret,         \* Theme: the last read, <<operation, argument, outcome>>
    th_seen,        \* Theme: <<key, outcome>> of the first get since the last mutation
    th_mut,         \* Theme: name changed by the last set_variable / set_computed
    p_in,           \* paths: the call, <<function, arguments>>
    p_out,          \* paths: what the call returned or raised
    search_paths,   \* loader: ThemeLoader._search_paths, symbol -> directory
    sp_ret,         \* loader: the last call on the search paths and its outcome
    sl_in,          \* layout: the call, <<function, arguments>>
    sl_out,         \* layout: what the call returned
    md_in,          \* parser: the markdown handed to parse_multi_region_markdown
    md_out,         \* parser: what it returned
    lru,            \* LRUCache: _cache (in OrderedDict order) and _max_size
    lru_used,       \* LRUCache: the keys present, least recently used first
    lru_ret,        \* LRUCache: the last call, its outcome and the key it evicted
    slides,         \* SlideDeck.slides
    deck_ret,       \* SlideDeck: the last call, its outcome and the list before it
    fw,             \* FileWatcher: _running, _files and the place of start() in its loop
    fw_disk,        \* FileWatcher: the modification time of the watched file on disk
    fw_log,         \* FileWatcher: the callbacks invoked, and what stop() left behind
    viewer,         \* DeckViewer: deck, current_index and current_step
    vw_ret          \* DeckViewer: the last call

loaderVars == <<files, loading_stack, calls>>
ctxVars == <<ctx, ctx_ret, ctx_phase>>
evalVars == <<ev_in, ev_out>>
themeVars == <<thm, tcache, th_ret, th_seen, th_mut>>

pathVars == <<p_in, p_out>>
searchVars == <<search_paths, sp_ret>>
layoutVars == <<sl_in, sl_out>>
mdVars == <<md_in, md_out>>
lruVars == <<lru, lru_used, lru_ret>>
deckVars == <<slides, deck_ret>>
watcherVars == <<fw, fw_disk, fw_log>>
viewerVars == <<viewer, vw_ret>>

vars == <<loaderVars, ctxVars, evalVars, themeVars, pathVars, searchVars,
          layoutVars, mdVars, lruVars, deckVars, watcherVars, viewerVars>>

(***************************************************************************)
(* Python values.  None, a JSON leaf and a JSON object are kept apart by a  *)
(* tag; a JSON object is a function from its keys to tagged values.        *)
(***************************************************************************)
None == <<"none">>
Leaf(v) == <<"leaf", v>>
Dict(d) == <<"dict", d>>
IsDict(x) == x[1] = "dict"
IsLeaf(x) == x[1] = "leaf"
EmptyDict == [k \in {} |-> None]

\* The value a component's variables keep under another component's
\* specification.
LoaderIdle == files = <<>> /\ loading_stack = <<>> /\ calls = <<>>
CtxIdle == ctx = <<>> /\ ctx_ret = <<>> /\ ctx_phase = 0

EvalIdle == ev_in = <<>> /\ ev_out = <<>>
ThemeIdle ==
    thm = <<>> /\ tcache = <<>> /\ th_ret = <<>> /\ th_seen = <<>> /\ th_mut = ""

PathIdle == p_in = <<>> /\ p_out = <<>>
SearchIdle == search_paths = <<>> /\ sp_ret = <<>>
LayoutIdle == sl_in = <<>> /\ sl_out = <<>>
MdIdle == md_in = <<>> /\ md_out = <<>>
LruIdle == lru = <<>> /\ lru_used = <<>> /\ lru_ret = <<>>
DeckIdle == slides = <<>> /\ deck_ret = <<>>
WatcherIdle == fw = <<>> /\ fw_disk = <<>> /\ fw_log = <<>>
ViewerIdle == viewer = <<>> /\ vw_ret = <<>>

nonLoaderVars ==
    <<ctxVars, evalVars, themeVars, pathVars, searchVars,
      layoutVars, mdVars, lruVars, deckVars,
      watcherVars, viewerVars>>
nonCtxVars ==
    <<loaderVars, evalVars, themeVars, pathVars, searchVars,
      layoutVars, mdVars, lruVars, deckVars,
      watcherVars, viewerVars>>
nonEvalVars ==
    <<loaderVars, ctxVars, themeVars, pathVars, searchVars,
      layoutVars, mdVars, lruVars, deckVars,
      watcherVars, viewerVars>>
nonThemeVars ==
    <<loaderVars, ctxVars, evalVars, pathVars, searchVars,
      layoutVars, mdVars, lruVars, deckVars,
      watcherVars, viewerVars>>
nonPathVars ==
    <<loaderVars, ctxVars, evalVars, themeVars, searchVars,
      layoutVars, mdVars, lruVars, deckVars,
      watcherVars, viewerVars>>
nonSearchVars ==
    <<loaderVars, ctxVars, evalVars, themeVars, pathVars,
      layoutVars, mdVars, lruVars, deckVars,
      watcherVars, viewerVars>>
nonLayoutVars ==
    <<loaderVars, ctxVars, evalVars, themeVars, pathVars,
      searchVars, mdVars, lruVars, deckVars,
      watcherVars, viewerVars>>
nonMdVars ==
    <<loaderVars, ctxVars, evalVars, themeVars, pathVars,
      searchVars, layoutVars, lruVars, deckVars,
      watcherVars, viewerVars>>
nonLruVars ==
    <<loaderVars, ctxVars, evalVars, themeVars, pathVars,
      searchVars, layoutVars, mdVars, deckVars,
      watcherVars, viewerVars>>
nonDeckVars ==
    <<loaderVars, ctxVars, evalVars, themeVars, pathVars,
      searchVars, layoutVars, mdVars, lruVars,
      watcherVars, viewerVars>>
nonWatcherVars ==
    <<loaderVars, ctxVars, evalVars, themeVars, pathVars,
      searchVars, layoutVars, mdVars, lruVars, deckVars, viewerVars>>
nonViewerVars ==
    <<loaderVars, ctxVars, evalVars, themeVars, pathVars,
      searchVars, layoutVars, mdVars, lruVars, deckVars, watcherVars>>

(***************************************************************************)
(*                          ThemeLoader                                    *)
(***************************************************************************)

\* Bounds of the loader model.
MaxFiles == 7
RichFiles == 3
MaxLoads == 2
MaxConcFiles == 2

MaxInheritanceDepth == 5

\* File names of the theme directory (one directory, one symbol).
Names == <<"t1.json", "t2.json", "t3.json", "t4.json", "t5.json",
           "t6.json", "t7.json", "t8.json", "t9.json">>

\* A safe .json name with no file behind it, names is_safe_filename rejects,
\* and a safe name without the .json extension.
MissingName == "missing.json"
UnsafeNames == {"bad;name.json", "../up.json"}
NonJsonNames == {"theme.txt"}

InvalidJson == <<"invalid">>

Ok(x) == <<"ok", x>>
Err(type, msg) == <<"err", type, msg>>
NoExc == <<"err", "", "">>

Range(seq) == {seq[i] : i \in 1..Len(seq)}
Front(seq) == SubSeq(seq, 1, Len(seq) - 1)
Last(seq) == seq[Len(seq)]

\* Bodies a theme file may have besides its "extends" entry.
ParentBody == ("a" :> Dict(("a" :> Leaf("x")) @@ ("b" :> Leaf("y")))) @@ ("b" :> Leaf("z"))
NestedLeafBody == ("a" :> Dict(("a" :> Leaf("w"))))
TopLeafBody == ("b" :> Leaf("w"))
LeafOverDictBody == ("a" :> Leaf("w"))
DictOverLeafBody == ("b" :> Dict(("a" :> Leaf("w"))))
Bodies == {ParentBody, NestedLeafBody, TopLeafBody, LeafOverDictBody,
           DictOverLeafBody, EmptyDict}

DefaultBody(i) == ("name" :> Leaf(Names[i]))

\* What the last file of the chain t1 -> t2 -> ... -> tn declares as "extends":
\* nothing, the empty string, a missing file, a rejected name, or a file of
\* the chain (closing a cycle); or the last file is not valid JSON.
Tails(n) == {"", "none", "invalid", MissingName} \cup UnsafeNames \cup NonJsonNames
                \cup {Names[j] : j \in 1..n}

WithExtends(body, ref) == body @@ ("extends" :> Leaf(ref))

FileContent(i, n, tail, body) ==
    IF i < n THEN Dict(WithExtends(body[i], Names[i + 1]))
    ELSE IF tail = "invalid" THEN InvalidJson
    ELSE IF tail = "none" THEN Dict(body[i])
    ELSE Dict(WithExtends(body[i], tail))

ThemeDir(n, tail, body) ==
    [p \in {Names[i] : i \in 1..n} |->
        LET i == CHOOSE j \in 1..n : Names[j] = p IN FileContent(i, n, tail, body)]

\* ThemeLoader.resolve_theme_path for a reference into the theme directory.
ResolveThemePath(reference) ==
    IF reference \in UnsafeNames THEN Err("PathSecurityError", "filename")
    ELSE IF reference \in NonJsonNames THEN Err("PathSecurityError", "extension")
    ELSE IF reference \notin DOMAIN files THEN Err("ThemeLoadError", "notfound")
    ELSE Ok(reference)

\* ThemeLoader._deep_merge
DeepMergeShallow(base, override) ==
    [k \in DOMAIN base \cup DOMAIN override |->
        IF k \in DOMAIN override THEN override[k] ELSE base[k]]

RECURSIVE DeepMerge(_, _)
DeepMerge(base, override) ==
    [k \in DOMAIN base \cup DOMAIN override |->
        IF k \in DOMAIN override
        THEN IF k \in DOMAIN base /\ IsDict(base[k]) /\ IsDict(override[k])
             THEN Dict(DeepMerge(base[k][2], override[k][2]))
             ELSE override[k]
        ELSE base[k]]

\* data.pop('extends', None)
PopExtends(d) == [k \in DOMAIN d \ {"extends"} |-> d[k]]
ExtendsOf(d) == IF "extends" \in DOMAIN d THEN d["extends"][2] ELSE ""

\* The circular-reference test and the depth test of _load_with_inheritance.
OnStackTopOnly(path, stack) == stack # <<>> /\ Last(stack) = path
OnStack(path, stack) == path \in Range(stack)

DepthExceededOffByOne(depth) == depth >= MaxInheritanceDepth
DepthExceeded(depth) == depth > MaxInheritanceDepth

\* prev: how the load before the current one ended (None before the
\* first one ended)
IdleCall == [st |-> "idle", loads |-> 0, entry |-> "", frames |-> <<>>,
             exc |-> NoExc, result |-> None, prev |-> None]

NewFrame(path, depth) ==
    [path |-> path, depth |-> depth, pc |-> "enter",
     own |-> None, parent |-> None, data |-> None]

\* An exception leaves the frames that are inside their try block to unwind.
Raising(c, frames, exc) ==
    [c EXCEPT !.frames = frames, !.exc = exc,
              !.st = IF frames = <<>> THEN "raised" ELSE "raising"]

SetTop(frames, fr) == [frames EXCEPT ![Len(frames)] = fr]

EntryRefs == DOMAIN files \cup {MissingName} \cup UnsafeNames \cup NonJsonNames

\* load_theme_data: resolve the reference, then call _load_with_inheritance.
LoadThemeData(t, reference) ==
    LET c == calls[t]
        r == ResolveThemePath(reference)
        c1 == [c EXCEPT !.loads = @ + 1, !.entry = reference, !.result = None,
                        !.exc = NoExc, !.frames = <<>>,
                        !.prev = IF c.st = "ok" THEN <<"ok">>
                                 ELSE IF c.st = "raised" THEN c.exc ELSE @]
    IN  /\ c.st \in {"idle", "ok", "raised"}
        /\ c.loads < MaxLoads
        /\ calls' = [calls EXCEPT ![t] =
                IF r[1] = "err" THEN Raising(c1, <<>>, r)
                ELSE [c1 EXCEPT !.st = "run", !.frames = <<NewFrame(r[2], 0)>>]]
        /\ UNCHANGED <<files, loading_stack>>

\* _load_with_inheritance up to the append: the two checks.
Enter(t) ==
    LET c == calls[t]
        fr == Last(c.frames)
    IN  /\ c.st = "run"
        /\ fr.pc = "enter"
        /\ IF OnStack(fr.path, loading_stack)
           THEN /\ calls' = [calls EXCEPT ![t] =
                        Raising(c, Front(c.frames), Err("ThemeLoadError", "circular"))]
                /\ UNCHANGED loading_stack
           ELSE IF DepthExceeded(fr.depth)
           THEN /\ calls' = [calls EXCEPT ![t] =
                        Raising(c, Front(c.frames), Err("ThemeLoadError", "depth"))]
                /\ UNCHANGED loading_stack
           ELSE /\ loading_stack' = Append(loading_stack, fr.path)
                /\ calls' = [calls EXCEPT ![t].frames =
                        SetTop(c.frames, [fr EXCEPT !.pc = "open"])]
        /\ UNCHANGED files

\* The try block: read the file, pop "extends", call for the parent.
Open(t) ==
    LET c == calls[t]
        fr == Last(c.frames)
        content == files[fr.path]
        own == PopExtends(content[2])
        extends == ExtendsOf(content[2])
        r == ResolveThemePath(extends)
    IN  /\ c.st = "run"
        /\ fr.pc = "open"
        /\ calls' = [calls EXCEPT ![t] =
              IF content = InvalidJson
              THEN Raising(c, c.frames, Err("JSONDecodeError", ""))
              ELSE IF extends = ""
              THEN [c EXCEPT !.frames = SetTop(c.frames,
                        [fr EXCEPT !.pc = "ret", !.own = Dict(own), !.data = Dict(own)])]
              ELSE IF r[1] = "err"
              THEN Raising(c, c.frames, r)
              ELSE [c EXCEPT !.frames = Append(
                        SetTop(c.frames, [fr EXCEPT !.pc = "wait", !.own = Dict(own),
                                                    !.data = Dict(own)]),
                        NewFrame(r[2], fr.depth + 1))]]
        /\ UNCHANGED <<files, loading_stack>>

\* finally: _loading_stack.pop(), then the return; the caller merges.
Return(t) ==
    LET c == calls[t]
        fr == Last(c.frames)
        rest == Front(c.frames)
        caller == Last(rest)
    IN  /\ c.st = "run"
        /\ fr.pc = "ret"
        /\ IF loading_stack = <<>>
           THEN /\ calls' = [calls EXCEPT ![t] = Raising(c, rest, Err("IndexError", ""))]
                /\ UNCHANGED loading_stack
           ELSE /\ loading_stack' = Front(loading_stack)
                /\ calls' = [calls EXCEPT ![t] =
                      IF rest = <<>>
                      THEN [c EXCEPT !.st = "ok", !.frames = <<>>, !.result = fr.data]
                      ELSE [c EXCEPT !.frames = SetTop(rest,
                              [caller EXCEPT !.pc = "ret", !.parent = fr.data,
                                  !.data = Dict(DeepMerge(fr.data[2], caller.own[2]))])]]
        /\ UNCHANGED files

\* An exception that passes a frame without the pop of its finally
UnwindKeepsStack(t) ==
    /\ calls[t].st = "raising"
    /\ calls' = [calls EXCEPT ![t] = Raising(calls[t], Front(calls[t].frames), calls[t].exc)]
    /\ UNCHANGED <<files, loading_stack>>

\* An exception passes a frame: its finally pops the stack.
Unwind(t) ==
    LET c == calls[t]
        rest == Front(c.frames)
    IN  /\ c.st = "raising"
        /\ IF loading_stack = <<>>
           THEN /\ calls' = [calls EXCEPT ![t] = Raising(c, rest, Err("IndexError", ""))]
                /\ UNCHANGED loading_stack
           ELSE /\ loading_stack' = Front(loading_stack)
                /\ calls' = [calls EXCEPT ![t] = Raising(c, rest, c.exc)]
        /\ UNCHANGED files

InitFiles ==
    \E n \in 1..MaxFiles :
        \E tail \in Tails(n) :
            \E body \in IF n <= RichFiles THEN [1..n -> Bodies]
                        ELSE {[i \in 1..n |-> DefaultBody(i)]} :
                files = ThemeDir(n, tail, body)

InitLoad ==
    /\ InitFiles
    /\ loading_stack = <<>>
    /\ calls = [t \in {1} |-> IdleCall]
    /\ CtxIdle
    /\ EvalIdle
    /\ ThemeIdle
    /\ PathIdle
    /\ SearchIdle
    /\ LayoutIdle
    /\ MdIdle
    /\ LruIdle
    /\ DeckIdle
    /\ WatcherIdle
    /\ ViewerIdle

NextLoad ==
    \/ \E t \in DOMAIN calls : \E reference \in EntryRefs :
            LoadThemeData(t, reference) /\ UNCHANGED nonLoaderVars
    \/ \E t \in DOMAIN calls : Enter(t) /\ UNCHANGED nonLoaderVars
    \/ \E t \in DOMAIN calls : Open(t) /\ UNCHANGED nonLoaderVars
    \/ \E t \in DOMAIN calls : Return(t) /\ UNCHANGED nonLoaderVars
    \/ \E t \in DOMAIN calls : Unwind(t) /\ UNCHANGED nonLoaderVars

SpecLoad == InitLoad /\ [][NextLoad]_vars

\* Two call chains through the one loader returned by get_theme_loader().
InitLoadConc ==
    /\ \E n \in 1..MaxConcFiles :
          \E tail \in Tails(n) :
              files = ThemeDir(n, tail, [i \in 1..n |-> DefaultBody(i)])
    /\ loading_stack = <<>>
    /\ calls = [t \in {1, 2} |-> IdleCall]
    /\ CtxIdle
    /\ EvalIdle
    /\ ThemeIdle
    /\ PathIdle
    /\ SearchIdle
    /\ LayoutIdle
    /\ MdIdle
    /\ LruIdle
    /\ DeckIdle
    /\ WatcherIdle
    /\ ViewerIdle

SpecLoadConc == InitLoadConc /\ [][NextLoad]_vars

(***************************************************************************)
(* The extends graph of the theme directory, read off the files.           *)
(***************************************************************************)
ExtTarget(p) == IF files[p] = InvalidJson THEN "" ELSE ExtendsOf(files[p][2])

RECURSIVE Walk(_, _)
Walk(p, k) ==
    IF k = 0 THEN p
    ELSE LET q == Walk(p, k - 1) IN IF q \in DOMAIN files THEN ExtTarget(q) ELSE ""

NFiles == Cardinality(DOMAIN files)

OnCycle(p) == p \in DOMAIN files /\ \E k \in 1..NFiles : Walk(p, k) = p
CycleLen(p) == CHOOSE k \in 1..NFiles :
                    Walk(p, k) = p /\ \A j \in 1..(k - 1) : Walk(p, j) # p

\* p starts a chain of valid files that ends in a file without a parent.
EndsAfter(p, k) ==
    /\ \A j \in 0..k : Walk(p, j) \in DOMAIN files /\ files[Walk(p, j)] # InvalidJson
    /\ \A j \in 0..(k - 1) : ResolveThemePath(Walk(p, j + 1))[1] = "ok"
    /\ ExtTarget(Walk(p, k)) = ""
Linear(p) == p \in DOMAIN files /\ \E k \in 0..(NFiles - 1) : EndsAfter(p, k)
Hops(p) == CHOOSE k \in 0..(NFiles - 1) : EndsAfter(p, k)

Finished(c) == c.st \in {"ok", "raised"}
Circular == Err("ThemeLoadError", "circular")
TooDeep == Err("ThemeLoadError", "depth")

\* C1 (as stated): a load that enters a cycle of extends references ends in
\* the 'Circular theme inheritance' error, whatever the cycle and the entry.
C1_AnyCycleRaisesCircular ==
    \A t \in DOMAIN calls :
        (Finished(calls[t]) /\ OnCycle(calls[t].entry))
            => (calls[t].st = "raised" /\ calls[t].exc = Circular)

\* C1 (amended): a load that enters a cycle always ends in a ThemeLoadError and
\* nests at most max depth + 2 calls: the circular-inheritance error when the
\* cycle has at most max depth + 1 files, the depth error when it has more.
C1_CycleRaises ==
    \A t \in DOMAIN calls :
        /\ Len(calls[t].frames) <= MaxInheritanceDepth + 2
        /\ Len(loading_stack) <= MaxInheritanceDepth + 1
        /\ (Finished(calls[t]) /\ OnCycle(calls[t].entry))
            => /\ calls[t].st = "raised"
               /\ calls[t].result = None
               /\ calls[t].exc = IF CycleLen(calls[t].entry) <= MaxInheritanceDepth + 1
                                 THEN Circular ELSE TooDeep

C1_Witness ==
    \E t \in DOMAIN calls :
        /\ Finished(calls[t]) /\ OnCycle(calls[t].entry)
        /\ CycleLen(calls[t].entry) = 2
        /\ calls[t].entry # Names[1]
        /\ calls[t].exc = Circular

\* C2: on a linear chain the load succeeds exactly when the entry theme is at
\* most max depth hops away from the root; a longer chain ends in the depth
\* error and yields no data.
C2_DepthLimit ==
    \A t \in DOMAIN calls :
        (Finished(calls[t]) /\ Linear(calls[t].entry))
            => /\ (calls[t].st = "ok") <=> (Hops(calls[t].entry) <= MaxInheritanceDepth)
               /\ calls[t].st = "ok" => calls[t].result # None
               /\ Hops(calls[t].entry) > MaxInheritanceDepth
                    => (calls[t].exc = TooDeep /\ calls[t].result = None)

C2_Witness ==
    \E t \in DOMAIN calls :
        /\ Finished(calls[t]) /\ Linear(calls[t].entry)
        /\ Hops(calls[t].entry) = MaxInheritanceDepth + 1
        /\ calls[t].exc = TooDeep

(***************************************************************************)
(* Leaves of a JSON object, addressed by their key paths.                  *)
(***************************************************************************)
RECURSIVE LeafPaths(_)
LeafPaths(d) ==
    UNION {IF IsDict(d[k]) THEN {<<k>> \o q : q \in LeafPaths(d[k][2])} ELSE {<<k>>}
           : k \in DOMAIN d}

RECURSIVE GetPath(_, _)
GetPath(d, q) ==
    IF Head(q) \notin DOMAIN d THEN None
    ELSE IF Len(q) = 1 THEN d[Head(q)]
    ELSE IF IsDict(d[Head(q)]) THEN GetPath(d[Head(q)][2], Tail(q))
    ELSE None

RECURSIVE PathDict(_, _)
PathDict(q, v) ==
    IF Len(q) = 1 THEN (Head(q) :> v) ELSE (Head(q) :> Dict(PathDict(Tail(q), v)))

\* child holds one leaf and nothing else, at the place of the leaf q.
OverridesLeaf(child, q) ==
    LeafPaths(child) = {q} /\ child = PathDict(q, GetPath(child, q))

\* child puts a value at q or on the way to q.
Touches(child, q) ==
    \E n \in 1..Len(q) :
        LET v == GetPath(child, SubSeq(q, 1, n))
        IN  v # None /\ (n = Len(q) \/ IsLeaf(v))

OwnBody(p) == PopExtends(files[p][2])

\* C8: a merge of a child that overrides one leaf of its parent has the
\* child's value at that leaf and the parent's value at every other leaf of
\* the parent; through a whole chain every leaf of the root that no
\* descendant touches reaches the result unchanged; "extends" is never a key
\* of the merged data.
C8_DeepMergeKeepsParent ==
    \A t \in DOMAIN calls :
        LET c == calls[t] IN
        /\ \A i \in 1..Len(c.frames) :
              LET fr == c.frames[i] IN
              (fr.pc = "ret" /\ fr.parent # None) =>
                  /\ "extends" \notin DOMAIN fr.data[2]
                  /\ \A q \in LeafPaths(fr.parent[2]) :
                        OverridesLeaf(fr.own[2], q) =>
                            /\ GetPath(fr.data[2], q) = GetPath(fr.own[2], q)
                            /\ LeafPaths(fr.data[2]) = LeafPaths(fr.parent[2])
                            /\ \A o \in LeafPaths(fr.parent[2]) \ {q} :
                                  GetPath(fr.data[2], o) = GetPath(fr.parent[2], o)
        /\ (c.st = "ok" /\ Linear(c.entry)) =>
              LET h == Hops(c.entry)
                  root == OwnBody(Walk(c.entry, h))
              IN  /\ "extends" \notin DOMAIN c.result[2]
                  /\ \A q \in LeafPaths(root) :
                        (\A j \in 0..(h - 1) : ~Touches(OwnBody(Walk(c.entry, j)), q))
                            => GetPath(c.result[2], q) = GetPath(root, q)

C8_Witness ==
    \E t \in DOMAIN calls :
        \E i \in 2..Len(calls[t].frames) :
            LET fr == calls[t].frames[i] IN
            /\ fr.pc = "ret"
            /\ fr.parent = Dict(ParentBody)
            /\ fr.own = Dict(NestedLeafBody)
            /\ GetPath(fr.data[2], <<"a", "a">>) = Leaf("w")
            /\ GetPath(fr.data[2], <<"a", "b">>) = Leaf("y")
            /\ GetPath(fr.data[2], <<"b">>) = Leaf("z")

\* C9: with two call chains in flight on the shared loader, no load of an
\* acyclic theme directory ends in the circular-inheritance error.
C9_NoSpuriousCircular ==
    (\A p \in DOMAIN files : ~OnCycle(p))
        => \A t \in DOMAIN calls : calls[t].exc # Circular

(***************************************************************************)
(*                          ThemeContext                                   *)
(***************************************************************************)

\* Bound of the context model: identities a ThemeOverrides object can have.
MaxObjIds == 3

CtxKeys == {"primary", "chart.colors"}
DottedKeys == {"chart.colors"}
\* '.' in key
Dotted(key) == key \in DottedKeys

CtxValues == {Leaf("v1"), Leaf("v2"), None}

NoMap == [k \in {} |-> None]
MapGet(m, k) == IF k \in DOMAIN m THEN m[k] ELSE None
MapPut(m, k, v) == (k :> v) @@ m

\* ThemeOverrides.set / get / merge / clear
OverridesSet(o, key, value) ==
    IF Dotted(key) THEN [o EXCEPT !.components = MapPut(@, key, value)]
    ELSE [o EXCEPT !.palette = MapPut(@, key, value)]

OverridesGet(o, key) ==
    IF Dotted(key) THEN MapGet(o.components, key) ELSE MapGet(o.palette, key)

OverridesMerge(o, other, id) ==
    [id |-> id, palette |-> other.palette @@ o.palette,
     components |-> other.components @@ o.components]

OverridesClear(o) == [o EXCEPT !.palette = NoMap, !.components = NoMap]

NewOverrides(id) == [id |-> id, palette |-> NoMap, components |-> NoMap]

\* Keyword arguments: a value for each key of a non-empty set of keys.
Kwargs == UNION {[D -> CtxValues] : D \in SUBSET CtxKeys \ {{}}}

RECURSIVE SetAll(_, _, _)
SetAll(o, kw, keys) ==
    IF keys = {} THEN o
    ELSE LET k == CHOOSE x \in keys : TRUE
         IN  SetAll(OverridesSet(o, k, kw[k]), kw, keys \ {k})

\* overrides(**kwargs), and a ThemeOverrides built from its two dicts.
OverridesHelper(kw) == SetAll(NewOverrides(0), kw, DOMAIN kw)
\* ThemeOverrides.from_dict
OverridesFromDict(data) ==
    [id |-> 0,
     palette |-> IF "palette" \in DOMAIN data THEN data["palette"] ELSE NoMap,
     components |-> IF "components" \in DOMAIN data THEN data["components"] ELSE NoMap]

OverrideArgs ==
    {OverridesHelper(kw) : kw \in Kwargs}
        \cup {OverridesFromDict([palette |-> kw]) : kw \in Kwargs}

\* Theme.get for a theme of plain variables.
ThemeGetPlain(theme, key) == MapGet(theme, key)

\* self._resolved_cache.clear()
KeptCache(cache) == cache
ClearedCache(cache) == NoMap

CacheKey(c, key) == <<key, c.slide.id, c.deck.id>>

RECURSIVE FirstTheme(_, _, _)
FirstTheme(themes, i, key) ==
    IF i > Len(themes) THEN None
    ELSE IF ThemeGetPlain(themes[i], key) # None THEN ThemeGetPlain(themes[i], key)
    ELSE FirstTheme(themes, i + 1, key)

\* The value ThemeContext.get finds when the cache has no entry.
Resolved(c, key) ==
    IF OverridesGet(c.slide, key) # None THEN OverridesGet(c.slide, key)
    ELSE IF OverridesGet(c.deck, key) # None THEN OverridesGet(c.deck, key)
    ELSE FirstTheme(c.themes, 1, key)

AllLayers(c, key) ==
    /\ OverridesGet(c.slide, key) # None
    /\ OverridesGet(c.deck, key) # None
    /\ ThemeGetPlain(c.themes[1], key) # None

NoRet == <<>>

CtxGet(key) ==
    LET ck == CacheKey(ctx, key)
        hit == ck \in DOMAIN ctx.cache
        value == IF hit THEN ctx.cache[ck] ELSE Resolved(ctx, key)
    IN  /\ ctx # <<>>
        /\ ctx' = IF hit \/ value = None THEN ctx
                  ELSE [ctx EXCEPT !.cache = MapPut(@, ck, value)]
        /\ ctx_ret' = <<key, value>>
        /\ ctx_phase' =
              IF ctx_phase[1] \in {0, 1} /\ AllLayers(ctx, key) THEN <<1, key>>
              ELSE IF ctx_phase[1] \in {2, 3} /\ ctx_phase[2] = key THEN <<3, key>>
              ELSE IF ctx_phase[1] \in {4, 5} /\ ctx_phase[2] = key THEN <<5, key>>
              ELSE ctx_phase

CtxOverride(key, value) ==
    /\ ctx # <<>>
    /\ ctx' = [ctx EXCEPT !.deck = OverridesSet(@, key, value),
                          !.cache = ClearedCache(@)]
    /\ ctx_ret' = NoRet
    /\ ctx_phase' = <<0, "">>

CtxOverridePalette(kw) ==
    /\ ctx # <<>>
    /\ ctx' = [ctx EXCEPT !.deck.palette = kw @@ @,
                          !.cache = ClearedCache(@)]
    /\ ctx_ret' = NoRet
    /\ ctx_phase' = <<0, "">>

CtxClearDeckOverrides ==
    /\ ctx # <<>>
    /\ ctx' = [ctx EXCEPT !.deck = OverridesClear(@), !.cache = ClearedCache(@)]
    /\ ctx_ret' = NoRet
    /\ ctx_phase' = IF ctx_phase[1] = 3 THEN <<4, ctx_phase[2]>> ELSE <<0, "">>

CtxPushSlideOverride(key, value) ==
    /\ ctx # <<>>
    /\ ctx' = [ctx EXCEPT !.slide = OverridesSet(@, key, value),
                          !.cache = ClearedCache(@)]
    /\ ctx_ret' = NoRet
    /\ ctx_phase' = <<0, "">>

\* The merge makes a new object while the old ones are alive: its identity
\* differs from theirs.
CtxPushSlideOverrides(o, id) ==
    /\ ctx # <<>>
    /\ id \notin {ctx.slide.id, ctx.deck.id}
    /\ ctx' = [ctx EXCEPT !.slide = OverridesMerge(@, o, id),
                          !.cache = ClearedCache(@)]
    /\ ctx_ret' = NoRet
    /\ ctx_phase' = <<0, "">>

CtxClearSlideOverrides ==
    /\ ctx # <<>>
    /\ ctx' = [ctx EXCEPT !.slide = OverridesClear(@), !.cache = ClearedCache(@)]
    /\ ctx_ret' = NoRet
    /\ ctx_phase' = IF ctx_phase[1] = 1 THEN <<2, ctx_phase[2]>> ELSE <<0, "">>

\* ThemeContext(themes=[first, fallback]): the first theme defines any set of
\* the keys, the fallback theme all of them.
InitCtx ==
    /\ \E D \in SUBSET CtxKeys :
          ctx = [themes |-> <<[k \in D |-> Leaf("theme1")],
                              [k \in CtxKeys |-> Leaf("theme2")]>>,
                 deck |-> NewOverrides(1),
                 slide |-> NewOverrides(2),
                 cache |-> NoMap]
    /\ ctx_ret = NoRet
    /\ ctx_phase = <<0, "">>
    /\ LoaderIdle
    /\ EvalIdle
    /\ ThemeIdle
    /\ PathIdle
    /\ SearchIdle
    /\ LayoutIdle
    /\ MdIdle
    /\ LruIdle
    /\ DeckIdle
    /\ WatcherIdle
    /\ ViewerIdle

NextCtx ==
    \/ \E k \in CtxKeys : CtxGet(k) /\ UNCHANGED nonCtxVars
    \/ \E k \in CtxKeys : \E v \in CtxValues : CtxOverride(k, v) /\ UNCHANGED nonCtxVars
    \/ \E kw \in Kwargs : CtxOverridePalette(kw) /\ UNCHANGED nonCtxVars
    \/ CtxClearDeckOverrides /\ UNCHANGED nonCtxVars
    \/ \E k \in CtxKeys : \E v \in CtxValues :
            CtxPushSlideOverride(k, v) /\ UNCHANGED nonCtxVars
    \/ \E o \in OverrideArgs : \E id \in 1..MaxObjIds :
            CtxPushSlideOverrides(o, id) /\ UNCHANGED nonCtxVars
    \/ CtxClearSlideOverrides /\ UNCHANGED nonCtxVars

SpecCtx == InitCtx /\ [][NextCtx]_vars

\* C3: a get() of a key that the slide overrides, the deck overrides and the
\* first theme define returns the slide value; once the slide overrides are
\* cleared it returns the deck value, once the deck overrides are cleared too
\* the first theme's value; gets made in between (and cached) change nothing.
C3_Cascade ==
    ctx_ret # NoRet =>
        LET key == ctx_ret[1]
            value == ctx_ret[2]
            s == OverridesGet(ctx.slide, key)
            d == OverridesGet(ctx.deck, key)
            th == ThemeGetPlain(ctx.themes[1], key)
        IN  /\ (s # None /\ d # None /\ th # None) => value = s
            /\ (s = None /\ d # None /\ th # None) => value = d
            /\ (s = None /\ d = None /\ th # None) => value = th
            /\ (ctx_phase[1] = 1 /\ key = ctx_phase[2]) => value = s
            /\ (ctx_phase[1] = 3 /\ key = ctx_phase[2]) => value = d
            /\ (ctx_phase[1] = 5 /\ key = ctx_phase[2]) => value = th

C3_Witness ==
    /\ ctx_ret # NoRet
    /\ ctx_phase = <<5, "chart.colors">>
    /\ ctx_ret = <<"chart.colors", Leaf("theme1")>>

\* Slide.override(key, value) on a slide that has the theme context:
\* self.theme_context.slide_overrides.set(key, value), _resolved_cache is
\* left as it is
SlideOverride(key, value) ==
    /\ ctx # <<>>
    /\ ctx' = [ctx EXCEPT !.slide = OverridesSet(@, key, value),
                          !.cache = KeptCache(@)]
    /\ ctx_ret' = NoRet
    /\ ctx_phase' = <<0, "">>

\* Slide.override_palette(**kwargs): slide_overrides.palette[key] = value
\* for every keyword, _resolved_cache is left as it is
SlideOverridePalette(kw) ==
    /\ ctx # <<>>
    /\ ctx' = [ctx EXCEPT !.slide.palette = kw @@ @,
                          !.cache = KeptCache(@)]
    /\ ctx_ret' = NoRet
    /\ ctx_phase' = <<0, "">>

\* A slide and its theme context: the reads and the mutators of the
\* context, and the two override methods of the slide
NextSlideCtx ==
    \/ \E k \in CtxKeys : CtxGet(k) /\ UNCHANGED nonCtxVars
    \/ \E k \in CtxKeys : \E v \in CtxValues : SlideOverride(k, v) /\ UNCHANGED nonCtxVars
    \/ \E kw \in Kwargs : SlideOverridePalette(kw) /\ UNCHANGED nonCtxVars
    \/ \E k \in CtxKeys : \E v \in CtxValues : CtxOverride(k, v) /\ UNCHANGED nonCtxVars
    \/ CtxClearSlideOverrides /\ UNCHANGED nonCtxVars

SpecSlideCtx == InitCtx /\ [][NextSlideCtx]_vars

\* C26: what ThemeContext.get(key) returns is what resolving the key afresh
\* against the current slide overrides, deck overrides and themes gives,
\* also after Slide.override and Slide.override_palette on a slide whose
\* theme context has served get(key) before.
C26_NeverStale ==
    ctx_ret # NoRet => ctx_ret[2] = Resolved(ctx, ctx_ret[1])

(***************************************************************************)
(*                      SafeExpressionEvaluator                            *)
(*                                                                         *)
(* A text is a sequence of characters; a reference ${name} is one element  *)
(* of it.  Numbers are exact fractions <<"num", n, d>> with d > 0; a whole  *)
(* value has d = 1 (the int evaluate() returns).  Rounding of floats is    *)
(* not modelled.                                                           *)
(***************************************************************************)

\* Bounds of the evaluator model.
MaxLiteral == 2
MaxRecursion == 4

Digits == <<"0", "1", "2", "3", "4", "5", "6", "7", "8", "9">>
IsDigit(c) == \E i \in 1..10 : Digits[i] = c
DigitVal(c) == (CHOOSE i \in 1..10 : Digits[i] = c) - 1
IsSpace(c) == c = " "
OperatorChars == {"+", "-", "*", "/", "%"}
NumericChars == {Digits[i] : i \in 1..10} \cup OperatorChars \cup {" ", "(", ")", "."}

RefSyms == [a |-> "${a}", b |-> "${b}", n |-> "${n}", z |-> "${z}",
            f |-> "${f}", h |-> "${h}", u |-> "${u}", s |-> "${s}",
            t |-> "${t}", c |-> "${c}"]
IsRef(c) == \E v \in DOMAIN RefSyms : RefSyms[v] = c
RefName(c) == CHOOSE v \in DOMAIN RefSyms : RefSyms[v] = c

Abs(x) == IF x < 0 THEN -x ELSE x
RECURSIVE Gcd(_, _)
Gcd(x, y) == IF y = 0 THEN x ELSE Gcd(y, x % y)
Num(n, d) ==
    LET sg == IF d < 0 THEN -1 ELSE 1
        g == Gcd(Abs(n), Abs(d))
    IN  <<"num", (sg * n) \div g, (sg * d) \div g>>
FloorDiv(x, y) == IF x >= 0 THEN x \div y ELSE -((-x + y - 1) \div y)
RAdd(x, y) == Num(x[2] * y[3] + y[2] * x[3], x[3] * y[3])
RSub(x, y) == Num(x[2] * y[3] - y[2] * x[3], x[3] * y[3])
RMul(x, y) == Num(x[2] * y[2], x[3] * y[3])
RDiv(x, y) == Num(x[2] * y[3], x[3] * y[2])
RNeg(x) == <<"num", -x[2], x[3]>>
RFloor(x) == FloorDiv(x[2], x[3])
RMod(x, y) == RSub(x, RMul(y, Num(RFloor(RDiv(x, y)), 1)))
RIsZero(x) == x[2] = 0

\* str(value) of an int
RECURSIVE NatToText(_)
NatToText(n) ==
    IF n < 10 THEN <<Digits[n + 1]>>
    ELSE NatToText(n \div 10) \o <<Digits[(n % 10) + 1]>>
IntToText(n) == IF n < 0 THEN <<"-">> \o NatToText(-n) ELSE NatToText(n)

\* A variable's value: an int, a str, or a float m * 10^k with one digit m.
IntVal(n) == <<"int", n>>
StrVal(text) == <<"str", text>>
FloatVal(m, k) == <<"float", m, k>>

RECURSIVE Zeros(_)
Zeros(k) == IF k = 0 THEN <<>> ELSE <<"0">> \o Zeros(k - 1)
RECURSIVE Pow10(_)
Pow10(k) == IF k = 0 THEN 1 ELSE 10 * Pow10(k - 1)

\* str(value) of a float with digits m (no trailing zero) and exponent k:
\* repr writes the digits with the point after the first p of them, and
\* switches to exponent notation when p < -3 or p > 16.
FloatToText(value) ==
    LET m == Abs(value[2])
        k == value[3]
        sign == IF value[2] < 0 THEN <<"-">> ELSE <<>>
        d == NatToText(m)
        p == Len(d) + k
        e == p - 1
    IN  IF m = 0 THEN sign \o <<"0", ".", "0">>
        ELSE IF p > 16 \/ p < -3
        THEN sign \o <<d[1]>> \o (IF Len(d) > 1 THEN <<".">> \o Tail(d) ELSE <<>>)
                  \o <<"e", IF e < 0 THEN "-" ELSE "+">>
                  \o (IF Abs(e) < 10 THEN <<"0">> ELSE <<>>) \o NatToText(Abs(e))
        ELSE IF p <= 0 THEN sign \o <<"0", ".">> \o Zeros(-p) \o d
        ELSE IF p < Len(d)
        THEN sign \o SubSeq(d, 1, p) \o <<".">> \o SubSeq(d, p + 1, Len(d))
        ELSE sign \o d \o Zeros(p - Len(d)) \o <<".", "0">>

\* str(value) in replace_var
StrOf(value) ==
    CASE value[1] = "int" -> IntToText(value[2])
      [] value[1] = "float" -> FloatToText(value)
      [] OTHER -> value[2]

ExpressionError == Err("ExpressionError", "")

\* An exception raised by a step passes through what follows it.
Try(result, Then(_)) == IF result[1] = "err" THEN result ELSE Then(result)

\* '${' in value
HasRef(text) == \E i \in 1..Len(text) : IsRef(text[i])

\* _substitute_variables: re.sub visits the references from left to right;
\* the recursion of replace_var is cut off by the interpreter's limit.
RECURSIVE SubstituteVariables(_, _, _), ReplaceVar(_, _, _)

\* replace_var for one element of the text
ReplaceVar(variables, c, fuel) ==
    IF ~IsRef(c) THEN Ok(<<c>>)
    ELSE IF RefName(c) \notin DOMAIN variables THEN ExpressionError
    ELSE LET value == variables[RefName(c)] IN
         IF value[1] = "str" /\ HasRef(value[2])
         THEN IF fuel = 0 THEN Err("RecursionError", "")
              ELSE SubstituteVariables(variables, value[2], fuel - 1)
         ELSE Ok(StrOf(value))

SubstituteVariables(variables, expression, fuel) ==
    IF expression = <<>> THEN Ok(<<>>)
    ELSE Try(ReplaceVar(variables, Head(expression), fuel),
             LAMBDA first :
                 Try(SubstituteVariables(variables, Tail(expression), fuel),
                     LAMBDA rest : Ok(first[2] \o rest[2])))

\* str.strip()
RECURSIVE Strip(_)
Strip(text) ==
    IF text = <<>> THEN text
    ELSE IF IsSpace(Head(text)) THEN Strip(Tail(text))
    ELSE IF IsSpace(Last(text)) THEN Strip(Front(text))
    ELSE text

\* _is_numeric_expression: ^[\d\s+\-*/%().]+$ on the stripped text
IsNumericExpression(expression) ==
    LET expr == Strip(expression)
    IN  expr # <<>> /\ \A i \in 1..Len(expr) : expr[i] \in NumericChars

RECURSIVE DigitsEnd(_, _)
DigitsEnd(expr, p) ==
    IF p <= Len(expr) /\ IsDigit(expr[p]) THEN DigitsEnd(expr, p + 1) ELSE p

\* NUMBER_PATTERN.match(expr, pos).end() for -?\d+\.?\d*
NumberEnd(expr, pos) ==
    LET p0 == IF expr[pos] = "-" THEN pos + 1 ELSE pos
        p1 == DigitsEnd(expr, p0)
    IN  IF p1 <= Len(expr) /\ expr[p1] = "." THEN DigitsEnd(expr, p1 + 1) ELSE p1

RECURSIVE DigitsValue(_)
DigitsValue(ds) ==
    IF ds = <<>> THEN 0 ELSE DigitsValue(Front(ds)) * 10 + DigitVal(Last(ds))
\* float(value) if '.' in value else int(value)
NumberValue(text) ==
    LET neg == Head(text) = "-"
        body == IF neg THEN Tail(text) ELSE text
        e == DigitsEnd(body, 1)
        whole == DigitsValue(SubSeq(body, 1, e - 1))
        frac == IF e <= Len(body) THEN SubSeq(body, e + 1, Len(body)) ELSE <<>>
        v == Num(whole * Pow10(Len(frac)) + DigitsValue(frac), Pow10(Len(frac)))
    IN  IF neg THEN RNeg(v) ELSE v

Token(type, value) == <<type, value>>
EOF == Token("EOF", "")

\* _tokenize
RECURSIVE TokenizeFrom(_, _, _)
TokenizeFrom(expr, pos, tokens) ==
    IF pos > Len(expr) THEN Ok(Append(tokens, EOF))
    ELSE LET char == expr[pos] IN
         IF IsSpace(char) THEN TokenizeFrom(expr, pos + 1, tokens)
         ELSE IF \/ IsDigit(char)
                 \/ /\ char = "-"
                    /\ pos + 1 <= Len(expr)
                    /\ IsDigit(expr[pos + 1])
                    /\ (tokens = <<>> \/ Last(tokens)[1] \in {"OPERATOR", "LPAREN"})
         THEN LET e == NumberEnd(expr, pos)
              IN  TokenizeFrom(expr, e,
                      Append(tokens, Token("NUMBER", NumberValue(SubSeq(expr, pos, e - 1)))))
         ELSE IF char \in OperatorChars
         THEN TokenizeFrom(expr, pos + 1, Append(tokens, Token("OPERATOR", char)))
         ELSE IF char = "("
         THEN TokenizeFrom(expr, pos + 1, Append(tokens, Token("LPAREN", char)))
         ELSE IF char = ")"
         THEN TokenizeFrom(expr, pos + 1, Append(tokens, Token("RPAREN", char)))
         ELSE ExpressionError

Tokenize(expression) == TokenizeFrom(Strip(expression), 1, <<>>)

\* _current_token
CurrentToken(tokens, pos) == IF pos <= Len(tokens) THEN tokens[pos] ELSE EOF

IsOperatorIn(tok, chars) == tok[1] = "OPERATOR" /\ tok[2] \in chars

\* the tests `if right == 0` of _parse_term
IsZeroDivisor(right) == RIsZero(right)

Parsed(value, pos) == <<"ok", value, pos>>

RECURSIVE ParseExpression(_, _), ParseTerm(_, _), ParseFactor(_, _)
RECURSIVE ExpressionLoop(_, _, _), TermLoop(_, _, _)

\* right = self._parse_term() in _parse_expression
AdditiveOperand(tokens, pos) == ParseTerm(tokens, pos)

\* _parse_expression
ParseExpression(tokens, pos) ==
    Try(ParseTerm(tokens, pos),
        LAMBDA left : ExpressionLoop(tokens, left[2], left[3]))

ExpressionLoop(tokens, left, pos) ==
    IF IsOperatorIn(CurrentToken(tokens, pos), {"+", "-"})
    THEN Try(AdditiveOperand(tokens, pos + 1),
             LAMBDA right :
                 ExpressionLoop(tokens,
                     IF CurrentToken(tokens, pos)[2] = "+" THEN RAdd(left, right[2])
                     ELSE RSub(left, right[2]),
                     right[3]))
    ELSE Parsed(left, pos)

\* _parse_term
ParseTerm(tokens, pos) ==
    Try(ParseFactor(tokens, pos),
        LAMBDA left : TermLoop(tokens, left[2], left[3]))

TermLoop(tokens, left, pos) ==
    IF IsOperatorIn(CurrentToken(tokens, pos), {"*", "/", "%"})
    THEN Try(ParseFactor(tokens, pos + 1),
             LAMBDA right :
                 LET op == CurrentToken(tokens, pos)[2] IN
                 IF op = "*" THEN TermLoop(tokens, RMul(left, right[2]), right[3])
                 ELSE IF IsZeroDivisor(right[2]) THEN ExpressionError
                 ELSE IF RIsZero(right[2]) THEN Err("ZeroDivisionError", "")
                 ELSE IF op = "/" THEN TermLoop(tokens, RDiv(left, right[2]), right[3])
                 ELSE TermLoop(tokens, RMod(left, right[2]), right[3]))
    ELSE Parsed(left, pos)

\* _parse_factor
ParseFactor(tokens, pos) ==
    LET tok == CurrentToken(tokens, pos) IN
    IF tok[1] = "NUMBER" THEN Parsed(tok[2], pos + 1)
    ELSE IF tok[1] = "LPAREN"
    THEN Try(ParseExpression(tokens, pos + 1),
             LAMBDA inner :
                 IF CurrentToken(tokens, inner[3])[1] # "RPAREN" THEN ExpressionError
                 ELSE Parsed(inner[2], inner[3] + 1))
    ELSE IF IsOperatorIn(tok, {"-"})
    THEN Try(ParseFactor(tokens, pos + 1),
             LAMBDA operand : Parsed(RNeg(operand[2]), operand[3]))
    ELSE ExpressionError

\* _evaluate_numeric
EvaluateNumeric(expression) ==
    Try(Tokenize(expression),
        LAMBDA tokens :
            Try(ParseExpression(tokens[2], 1),
                LAMBDA result :
                    IF CurrentToken(tokens[2], result[3])[1] # "EOF"
                    THEN ExpressionError
                    ELSE result[2]))

\* evaluate
Evaluate(variables, expression) ==
    IF expression = <<>> THEN StrVal(expression)
    ELSE Try(SubstituteVariables(variables, expression, MaxRecursion),
             LAMBDA resolved :
                 IF IsNumericExpression(resolved[2]) THEN EvaluateNumeric(resolved[2])
                 ELSE StrVal(resolved[2]))

(***************************************************************************)
(* Expressions handed to evaluate(): a syntax tree, written out as text    *)
(* with the fewest parentheses, spaced or compact, between a prefix and a  *)
(* suffix.                                                                 *)
(***************************************************************************)

Lit(i) == <<"lit", i>>
Dec(text) == <<"dec", text>>
Var(v) == <<"var", v>>
Neg(e) == <<"neg", e>>
Bin(op, l, r) == <<"bin", op, l, r>>

\* The variable table of the calls: ints, floats, and strings that refer on.
Variables ==
    [a |-> IntVal(3), b |-> IntVal(4), n |-> IntVal(-2), z |-> IntVal(0),
     f |-> FloatVal(1, -5), h |-> FloatVal(5, -1),
     s |-> StrVal(<<"${u}">>), t |-> StrVal(<<"${z}">>), c |-> StrVal(<<"${c}">>)]

WithNeg(S) == S \cup {Neg(e) : e \in S}

\* Well-formed arithmetic: an inner binary expression, negated or not, on
\* one side of an outer binary expression.
ArithAtoms == {Lit(i) : i \in 0..MaxLiteral} \cup {Var("a"), Var("b"), Var("n"), Var("f")}
ArithRight == ArithAtoms \cup {Neg(Var("n"))}
OuterAtoms == {Lit(2), Var("a")}
ArithTree(op, side, outer, neg, iop, l, r) ==
    LET inner == IF neg THEN Neg(Bin(iop, l, r)) ELSE Bin(iop, l, r)
    IN  IF side = "left" THEN Bin(op, inner, outer) ELSE Bin(op, outer, inner)

\* Expressions over zeros, strings that refer on, and an unknown name.
FailAtoms == {Lit(0), Dec(<<"0", ".", "0">>), Var("z"), Var("a"), Var("h"),
              Var("u"), Var("s"), Var("t"), Var("c")}
FailRight == FailAtoms \cup {Neg(Var("z")), Bin("-", Lit(2), Lit(2))}
FailTree(shape, op, l, r) == IF shape = "atom" THEN l ELSE Bin(op, l, r)

Styles == {"spaced", "compact"}
Affixes == {<<<<>>, <<>>>>, <<<<"x", " ">>, <<>>>>,
            <<<<>>, <<" ", "2">>>>, <<<<>>, <<")">>>>}

EvalInput(tree, style, prefix, suffix) ==
    [variables |-> Variables, tree |-> tree, style |-> style,
     prefix |-> prefix, suffix |-> suffix]

Prec(e) ==
    CASE e[1] = "bin" -> (IF e[2] \in {"+", "-"} THEN 1 ELSE 2)
      [] e[1] = "neg" -> 3
      [] OTHER -> 4

Paren(text) == <<"(">> \o text \o <<")">>

RECURSIVE Render(_, _)
Render(e, style) ==
    CASE e[1] = "lit" -> NatToText(e[2])
      [] e[1] = "dec" -> e[2]
      [] e[1] = "var" -> <<RefSyms[e[2]]>>
      [] e[1] = "neg" ->
            <<"-">> \o (IF e[2][1] = "bin" THEN Paren(Render(e[2], style))
                        ELSE Render(e[2], style))
      [] e[1] = "bin" ->
            LET sep == IF style = "spaced" THEN <<" ">> ELSE <<>>
                l == IF Prec(e[3]) < Prec(e) THEN Paren(Render(e[3], style))
                     ELSE Render(e[3], style)
                r == IF Prec(e[4]) <= Prec(e) THEN Paren(Render(e[4], style))
                     ELSE Render(e[4], style)
            IN  l \o sep \o <<e[2]>> \o sep \o r

ExprText(in) == in.prefix \o Render(in.tree, in.style) \o in.suffix

\* The value a variable stands for, following strings that are one reference.
RECURSIVE VarValue(_, _, _)
VarValue(variables, v, fuel) ==
    IF v \notin DOMAIN variables THEN <<"undefined">>
    ELSE LET value == variables[v] IN
         CASE value[1] = "int" -> Num(value[2], 1)
           [] value[1] = "float" ->
                 (IF value[3] >= 0 THEN Num(value[2] * Pow10(value[3]), 1)
                  ELSE Num(value[2], Pow10(-value[3])))
           [] OTHER ->
                 (IF fuel > 0 /\ Len(value[2]) = 1 /\ IsRef(value[2][1])
                  THEN VarValue(variables, RefName(value[2][1]), fuel - 1)
                  ELSE <<"undefined">>)

\* The reference evaluator: the tree's value, or "undefined".
RECURSIVE RefEval(_, _)
RefEval(variables, e) ==
    CASE e[1] = "lit" -> Num(e[2], 1)
      [] e[1] = "dec" -> NumberValue(e[2])
      [] e[1] = "var" -> VarValue(variables, e[2], MaxRecursion)
      [] e[1] = "neg" ->
            (LET x == RefEval(variables, e[2])
             IN  IF x[1] # "num" THEN x ELSE RNeg(x))
      [] e[1] = "bin" ->
            LET x == RefEval(variables, e[3])
                y == RefEval(variables, e[4])
            IN  IF x[1] # "num" THEN x
                ELSE IF y[1] # "num" THEN y
                ELSE CASE e[2] = "+" -> RAdd(x, y)
                       [] e[2] = "-" -> RSub(x, y)
                       [] e[2] = "*" -> RMul(x, y)
                       [] e[2] = "/" -> (IF RIsZero(y) THEN <<"undefined">> ELSE RDiv(x, y))
                       [] e[2] = "%" -> (IF RIsZero(y) THEN <<"undefined">> ELSE RMod(x, y))

RECURSIVE VarsOf(_)
VarsOf(e) ==
    CASE e[1] = "var" -> {e[2]}
      [] e[1] = "neg" -> VarsOf(e[2])
      [] e[1] = "bin" -> VarsOf(e[3]) \cup VarsOf(e[4])
      [] OTHER -> {}

\* Every reference of the tree is to a variable holding a number.
NumericRefs(variables, e) ==
    \A v \in VarsOf(e) : v \in DOMAIN variables /\ variables[v][1] \in {"int", "float"}

\* A reference of the text, or of a value reached from it, is not in the table.
RECURSIVE ReachesUnknown(_, _, _)
ReachesUnknown(variables, text, fuel) ==
    \E i \in 1..Len(text) :
        /\ IsRef(text[i])
        /\ \/ RefName(text[i]) \notin DOMAIN variables
           \/ /\ fuel > 0
              /\ variables[RefName(text[i])][1] = "str"
              /\ ReachesUnknown(variables, variables[RefName(text[i])][2], fuel - 1)

\* Some '/' or '%' of the tree has a right operand whose value is zero.
RECURSIVE HasZeroDivisor(_, _)
HasZeroDivisor(variables, e) ==
    CASE e[1] = "neg" -> HasZeroDivisor(variables, e[2])
      [] e[1] = "bin" ->
            \/ HasZeroDivisor(variables, e[3])
            \/ HasZeroDivisor(variables, e[4])
            \/ /\ e[2] \in {"/", "%"}
               /\ RefEval(variables, e[4]) = Num(0, 1)
      [] OTHER -> FALSE

InitEval ==
    /\ LoaderIdle
    /\ CtxIdle
    /\ ThemeIdle
    /\ PathIdle
    /\ SearchIdle
    /\ LayoutIdle
    /\ MdIdle
    /\ LruIdle
    /\ DeckIdle
    /\ WatcherIdle
    /\ ViewerIdle
    /\ ev_in = <<>>
    /\ ev_out = <<>>

\* One call of evaluate(expression) on an evaluator built with the table.
EvaluateCall(in) ==
    /\ ev_out = <<>>
    /\ ev_in' = in
    /\ ev_out' = Evaluate(in.variables, ExprText(in))

NextEval ==
    \/ /\ ev_out = <<>>
       /\ \E op \in OperatorChars, side \in {"left", "right"}, outer \in OuterAtoms,
          neg \in BOOLEAN, iop \in OperatorChars,
          l \in WithNeg(ArithAtoms), r \in ArithRight, style \in Styles :
           /\ EvaluateCall(EvalInput(ArithTree(op, side, outer, neg, iop, l, r),
                                     style, <<>>, <<>>))
           /\ UNCHANGED nonEvalVars
    \/ /\ ev_out = <<>>
       /\ \E shape \in {"atom", "bin"}, op \in OperatorChars,
          l \in WithNeg(FailAtoms), r \in FailRight,
          style \in Styles, affix \in Affixes :
           /\ EvaluateCall(EvalInput(FailTree(shape, op, l, r),
                                     style, affix[1], affix[2]))
           /\ UNCHANGED nonEvalVars

SpecEval == InitEval /\ [][NextEval]_vars

\* What the reference evaluator makes of the call: its value, or the error.
RefResult(in) ==
    LET x == RefEval(in.variables, in.tree)
    IN  IF x[1] = "num" THEN x ELSE ExpressionError

\* C6: evaluate raises ExpressionError whenever the expression, or a value
\* reached by substitution, references a name that is not in the table, and
\* whenever the substituted text is arithmetic and a '/' or '%' has a right
\* operand that evaluates to zero.
C6_FailFast ==
    ev_out # <<>> =>
        /\ ReachesUnknown(ev_in.variables, ExprText(ev_in), MaxRecursion)
               => ev_out = ExpressionError
        /\ (/\ ev_in.prefix = <<>>
            /\ LET text == SubstituteVariables(ev_in.variables, ExprText(ev_in),
                                               MaxRecursion)
               IN  text[1] = "ok" /\ IsNumericExpression(text[2])
            /\ HasZeroDivisor(ev_in.variables, ev_in.tree))
               => ev_out = ExpressionError

\* C7: for a well-formed arithmetic expression over integer literals and
\* numeric references, evaluate returns the reference evaluator's value
\* (unary minus before * / % before + -, left to right), and raises
\* ExpressionError when tokens are left over after the expression.
C7_MatchesReference ==
    (/\ ev_out # <<>>
     /\ ev_in.prefix = <<>>
     /\ NumericRefs(ev_in.variables, ev_in.tree))
        => IF ev_in.suffix = <<>> THEN ev_out = RefResult(ev_in)
           ELSE ev_out = ExpressionError

(***************************************************************************)
(*                        Theme and ThemeCache                             *)
(*                                                                         *)
(* variables is a map name -> value, computed a sequence of <<name, text>> *)
(* in dict order, a layout <<"layout", background, title colour, title     *)
(* size>>.  A key is the sequence of its dot-separated parts.  The          *)
(* expression cache is keyed by the expression (its md5 prefix in the code) *)
(* and stays far below its 1000 entries.                                   *)
(***************************************************************************)

Layout(background, color, size) == <<"layout", background, color, size>>

\* ThemeCache() and ThemeCache.clear / clear_computed
NoCache == [computed |-> NoMap, expr |-> NoMap, layouts |-> NoMap]
ClearAll(cache) == NoCache
ClearComputed(cache) == [cache EXCEPT !.computed = NoMap, !.expr = NoMap]

ComputedNames(t) == {t.computed[i][1] : i \in 1..Len(t.computed)}
ComputedExpr(t, name) ==
    t.computed[CHOOSE i \in 1..Len(t.computed) : t.computed[i][1] = name][2]

\* self.computed[name] = expression on a dict: a present key keeps its place
DictSet(items, name, expression) ==
    IF \E i \in 1..Len(items) : items[i][1] = name
    THEN [i \in 1..Len(items) |->
             IF items[i][1] = name THEN <<name, expression>> ELSE items[i]]
    ELSE Append(items, <<name, expression>>)

\* The value evaluate() returned, as held in a variable context: an int when
\* whole, a float with its shortest digits otherwise.
ResultValue(result) ==
    IF result[1] # "num" THEN result
    ELSE IF result[3] = 1 THEN IntVal(result[2])
    ELSE LET j == CHOOSE i \in 1..6 :
                      /\ Pow10(i) % result[3] = 0
                      /\ \A h \in 1..(i - 1) : Pow10(h) % result[3] # 0
         IN  FloatVal((result[2] * Pow10(j)) \div result[3], -j)

Outcome(out, cache) == [out |-> out, cache |-> cache]
IsErr(x) == x[1] = "err"

\* An exception raised by a step passes through what follows it, with the
\* cache as the step left it.
TryOut(r, Then(_)) == IF IsErr(r.out) THEN r ELSE Then(r)

\* self._cache.set_computed(name, result) / set_expr(value, result), reached
\* only when evaluate() returned
StoreComputed(cache, name, result) ==
    IF IsErr(result) THEN Outcome(result, cache)
    ELSE Outcome(result, [cache EXCEPT !.computed = MapPut(@, name, result)])

StoreExpr(cache, value, result) ==
    IF IsErr(result) THEN Outcome(result, cache)
    ELSE Outcome(result, [cache EXCEPT !.expr = MapPut(@, value, result)])

\* the context of _resolve_computed: variables and already-resolved computed
ComputedContext(t, cache, name) ==
    LET cached == {cn \in ComputedNames(t) :
                      cn # name /\ cn \in DOMAIN cache.computed}
    IN  [cn \in cached |-> ResultValue(cache.computed[cn])] @@ t.variables

\* Theme._resolve_computed.  _resolving is empty at every call: evaluate()
\* never calls back into the theme.
ResolveComputed(t, cache, name) ==
    IF name \in DOMAIN cache.computed THEN Outcome(cache.computed[name], cache)
    ELSE IF name \notin ComputedNames(t) THEN Outcome(MapGet(t.variables, name), cache)
    ELSE StoreComputed(cache, name,
             Evaluate(ComputedContext(t, cache, name), ComputedExpr(t, name)))

\* the loop of Theme.resolve over self.computed.items()
RECURSIVE ResolveContext(_, _, _, _)
ResolveContext(t, cache, context, i) ==
    IF i > Len(t.computed) THEN Outcome(Ok(context), cache)
    ELSE IF t.computed[i][1] \in DOMAIN context
    THEN ResolveContext(t, cache, context, i + 1)
    ELSE TryOut(ResolveComputed(t, cache, t.computed[i][1]),
                LAMBDA r :
                    ResolveContext(t, r.cache,
                        MapPut(context, t.computed[i][1], ResultValue(r.out)),
                        i + 1))

\* Theme.resolve for a str value
Resolve(t, cache, value) ==
    IF value \in DOMAIN cache.expr THEN Outcome(cache.expr[value], cache)
    ELSE TryOut(ResolveContext(t, cache, t.variables, 1),
                LAMBDA ctxt : StoreExpr(ctxt.cache, value, Evaluate(ctxt.out[2], value)))

\* Theme._get_layout_value for the parts after 'layouts'
ElementNames == {"title"}
GetLayoutValue(t, parts, default) ==
    IF parts = <<>> THEN default
    ELSE IF parts[1] \notin DOMAIN t.layouts THEN default
    ELSE IF Len(parts) = 1 THEN t.layouts[parts[1]]
    ELSE IF Len(parts) = 2 THEN
         (IF parts[2] \in ElementNames
          THEN <<"element", t.layouts[parts[1]][3], t.layouts[parts[1]][4]>>
          ELSE <<"element", <<>>, <<>>>>)
    ELSE IF parts[2] \in ElementNames /\ parts[3] = "color"
         THEN StrVal(t.layouts[parts[1]][3])
    ELSE IF parts[2] \in ElementNames /\ parts[3] = "size"
         THEN StrVal(t.layouts[parts[1]][4])
    ELSE default

\* Theme.get(key) with the default None
ThemeGet(t, cache, key) ==
    IF Len(key) = 1 /\ key[1] \in DOMAIN cache.computed
    THEN Outcome(cache.computed[key[1]], cache)
    ELSE IF key[1] = "layouts" /\ Len(key) >= 2
    THEN Outcome(GetLayoutValue(t, Tail(key), None), cache)
    ELSE IF Len(key) = 1 /\ key[1] \in ComputedNames(t)
    THEN TryOut(Resolve(t, cache, ComputedExpr(t, key[1])),
                LAMBDA r :
                    Outcome(r.out, [r.cache EXCEPT !.computed = MapPut(@, key[1], r.out)]))
    ELSE IF Len(key) = 1 /\ key[1] \in DOMAIN t.variables
    THEN Outcome(t.variables[key[1]], cache)
    ELSE Outcome(None, cache)

\* str(result) of a resolved value
ResultText(result) == IF result[1] = "str" THEN result[2] ELSE StrOf(ResultValue(result))

\* Theme._resolve_str
ResolveStr(t, cache, value) ==
    IF value = <<>> \/ ~HasRef(value) THEN Outcome(value, cache)
    ELSE TryOut(Resolve(t, cache, value),
                LAMBDA r : Outcome(ResultText(r.out), r.cache))

\* the size of Theme._resolve_element
ResolveSize(t, cache, size) ==
    IF HasRef(size) THEN Resolve(t, cache, size) ELSE Outcome(StrVal(size), cache)

\* Theme.get_layout_resolved: element colour, element size, then background
GetLayoutResolved(t, cache, name) ==
    IF name \in DOMAIN cache.layouts THEN Outcome(cache.layouts[name], cache)
    ELSE IF name \notin DOMAIN t.layouts THEN Outcome(None, cache)
    ELSE TryOut(ResolveStr(t, cache, t.layouts[name][3]),
         LAMBDA color :
             TryOut(ResolveSize(t, color.cache, t.layouts[name][4]),
             LAMBDA size :
                 TryOut(ResolveStr(t, size.cache, t.layouts[name][2]),
                 LAMBDA background :
                     Outcome(Layout(background.out, color.out, size.out),
                         [background.cache EXCEPT
                             !.layouts = MapPut(@, name,
                                 Layout(background.out, color.out, size.out))]))))

\* Themes, keys and expressions of the calls.
DoubleA == <<"${a}", " ", "*", " ", "2">>
NextB == <<"${b}", " ", "+", " ", "1">>
IncrA == <<"${a}", " ", "+", " ", "1">>
UsesU == <<"${u}">>
ComputedTables ==
    {<<<<"b", DoubleA>>>>,
     <<<<"b", DoubleA>>, <<"s", UsesU>>>>,
     <<<<"s", UsesU>>, <<"b", DoubleA>>>>,
     <<<<"b", DoubleA>>, <<"n", NextB>>>>,
     <<<<"n", NextB>>, <<"b", DoubleA>>>>}
ThemeOf(computed) ==
    [variables |-> ("a" :> IntVal(3)),
     computed |-> computed,
     layouts |-> ("title" :> Layout(<<"#">>, <<"${a}">>, <<"${b}">>))]
\* Themes whose entries refer to themselves or to each other: computed to
\* computed, a computed entry to itself, a variable to itself, variable to
\* variable, and a variable and a computed entry to each other.
CyclicTheme(variables, computed) ==
    [variables |-> variables @@ ("a" :> IntVal(3)),
     computed |-> computed,
     layouts |-> ("title" :> Layout(<<"#">>, <<"${a}">>, <<"${b}">>))]
CyclicThemes ==
    {CyclicTheme(NoMap, <<<<"s", <<"${t}">>>>, <<"t", <<"${s}">>>>>>),
     CyclicTheme(NoMap, <<<<"b", <<"${b}", " ", "*", " ", "2">>>>>>),
     CyclicTheme("c" :> StrVal(<<"${c}">>), <<<<"s", <<"${c}">>>>>>),
     CyclicTheme(("c" :> StrVal(<<"${t}">>)) @@ ("t" :> StrVal(<<"${c}">>)),
                 <<<<"b", DoubleA>>, <<"s", <<"${c}">>>>>>),
     CyclicTheme("c" :> StrVal(<<"${s}">>), <<<<"s", <<"${c}">>>>>>)}

GetKeys == {<<"a">>, <<"b">>, <<"s">>, <<"layouts", "title", "title", "color">>}
ResolveTexts == {DoubleA, NextB}
LayoutNames == {"title", "missing"}
SetVariableArgs == {<<"a", IntVal(4)>>, <<"u", IntVal(1)>>}
SetComputedArgs == {<<"b", IncrA>>, <<"s", UsesU>>}

NoRead == <<>>

InitTheme ==
    /\ LoaderIdle
    /\ CtxIdle
    /\ EvalIdle
    /\ PathIdle
    /\ SearchIdle
    /\ LayoutIdle
    /\ MdIdle
    /\ LruIdle
    /\ DeckIdle
    /\ WatcherIdle
    /\ ViewerIdle
    /\ thm \in {ThemeOf(computed) : computed \in ComputedTables} \cup CyclicThemes
    /\ tcache = NoCache
    /\ th_ret = NoRead
    /\ th_seen = NoRead
    /\ th_mut = ""

\* theme.get(key)
Get(key) ==
    \E r \in {ThemeGet(thm, tcache, key)} :
        /\ tcache' = r.cache
        /\ th_ret' = <<"get", key, r.out>>
        /\ th_seen' = IF th_seen = NoRead THEN <<key, r.out>> ELSE th_seen
        /\ UNCHANGED <<thm, th_mut>>

\* theme.resolve(value)
ResolveCall(value) ==
    \E r \in {Resolve(thm, tcache, value)} :
        /\ tcache' = r.cache
        /\ th_ret' = <<"resolve", value, r.out>>
        /\ UNCHANGED <<thm, th_seen, th_mut>>

\* theme.get_layout_resolved(name)
GetLayoutResolvedCall(name) ==
    \E r \in {GetLayoutResolved(thm, tcache, name)} :
        /\ tcache' = r.cache
        /\ th_ret' = <<"get_layout_resolved", <<name>>, r.out>>
        /\ UNCHANGED <<thm, th_seen, th_mut>>

\* theme.set_variable(name, value)
SetVariable(name, value) ==
    /\ thm' = [thm EXCEPT !.variables = MapPut(@, name, value)]
    /\ tcache' = ClearComputed(tcache)
    /\ th_ret' = NoRead
    /\ th_seen' = NoRead
    /\ th_mut' = name

\* theme.set_computed(name, expression)
SetComputed(name, expression) ==
    /\ thm' = [thm EXCEPT !.computed = DictSet(@, name, expression)]
    /\ tcache' = ClearComputed(tcache)
    /\ th_ret' = NoRead
    /\ th_seen' = NoRead
    /\ th_mut' = name

\* theme.clear_cache()
ClearCache ==
    /\ tcache' = ClearAll(tcache)
    /\ th_ret' = NoRead
    /\ th_seen' = NoRead
    /\ UNCHANGED <<thm, th_mut>>

NextTheme ==
    \/ \E key \in GetKeys : Get(key) /\ UNCHANGED nonThemeVars
    \/ \E value \in ResolveTexts : ResolveCall(value) /\ UNCHANGED nonThemeVars
    \/ \E name \in LayoutNames : GetLayoutResolvedCall(name) /\ UNCHANGED nonThemeVars
    \/ \E arg \in SetVariableArgs : SetVariable(arg[1], arg[2]) /\ UNCHANGED nonThemeVars
    \/ \E arg \in SetComputedArgs : SetComputed(arg[1], arg[2]) /\ UNCHANGED nonThemeVars
    \/ ClearCache /\ UNCHANGED nonThemeVars

SpecTheme == InitTheme /\ [][NextTheme]_vars

\* C4: a get(key) made again with no set_variable, set_computed or clear_cache
\* since the first one has the outcome of the first one, whatever other keys
\* were read in between.
C4_GetIdempotent ==
    (th_ret # NoRead /\ th_ret[1] = "get" /\ th_seen[1] = th_ret[2])
        => th_seen[2] = th_ret[3]

\* The text, or a computed entry it leads to, references the name.
RECURSIVE Mentions(_, _, _, _)
Mentions(t, text, name, fuel) ==
    \E i \in 1..Len(text) :
        /\ IsRef(text[i])
        /\ \/ RefName(text[i]) = name
           \/ /\ fuel > 0
              /\ RefName(text[i]) \in ComputedNames(t)
              /\ Mentions(t, ComputedExpr(t, RefName(text[i])), name, fuel - 1)

\* The read depends on the definition of the name.
ReadMentions(t, read, name) ==
    CASE read[1] = "get" ->
            /\ Len(read[2]) = 1
            /\ read[2][1] \in ComputedNames(t)
            /\ \/ read[2][1] = name
               \/ Mentions(t, ComputedExpr(t, read[2][1]), name, Len(t.computed))
      [] read[1] = "resolve" -> Mentions(t, read[2], name, Len(t.computed))
      [] read[1] = "get_layout_resolved" ->
            /\ read[2][1] \in DOMAIN t.layouts
            /\ \E j \in 2..4 :
                   Mentions(t, t.layouts[read[2][1]][j], name, Len(t.computed))

\* The outcome of the read on a theme of the same definitions and no cache.
FreshRead(t, read) ==
    CASE read[1] = "get" -> ThemeGet(t, NoCache, read[2]).out
      [] read[1] = "resolve" -> Resolve(t, NoCache, read[2]).out
      [] read[1] = "get_layout_resolved" -> GetLayoutResolved(t, NoCache, read[2][1]).out

AllComputedResolve(t) ==
    \A name \in ComputedNames(t) : ~IsErr(ThemeGet(t, NoCache, <<name>>).out)

\* C5: after set_variable(name, v) or set_computed(name, expr), a get, resolve
\* or get_layout_resolved that depends on the name returns what the current
\* definitions give, also when the same read was made before the mutation.
C5_NoStaleRead ==
    (/\ th_mut # ""
     /\ th_ret # NoRead
     /\ AllComputedResolve(thm)
     /\ ReadMentions(thm, th_ret, th_mut))
        => th_ret[3] = FreshRead(thm, th_ret)

\* The computed entries reference each other acyclically: no entry leads
\* to itself, every name they reference is a variable or a computed entry,
\* and no variable holds a reference.
Acyclic(t) ==
    /\ \A name \in ComputedNames(t) :
           /\ ~Mentions(t, ComputedExpr(t, name), name, Len(t.computed))
           /\ \A i \in 1..Len(ComputedExpr(t, name)) :
                  IsRef(ComputedExpr(t, name)[i]) =>
                      RefName(ComputedExpr(t, name)[i]) \in DOMAIN t.variables \cup ComputedNames(t)
    /\ \A v \in DOMAIN t.variables : ~(t.variables[v][1] = "str" /\ HasRef(t.variables[v][2]))
\* The same entries of the computed table in every order of declaration
Orders(computed) ==
    {[i \in 1..Len(computed) |-> computed[p[i]]] : p \in Permutations(1..Len(computed))}

\* C25: on a theme whose computed entries reference each other acyclically,
\* get(key) returns what a theme with the same entries returns for every
\* order of declaration of the computed table and with nothing read before.
C25_OrderIndependent ==
    (th_ret # NoRead /\ th_ret[1] = "get" /\ Acyclic(thm)) =>
        \A computed \in Orders(thm.computed) :
            ThemeGet([thm EXCEPT !.computed = computed], NoCache, th_ret[2]).out = th_ret[3]

(***************************************************************************)
(*                     utils/paths.py: safe paths                          *)
(*                                                                         *)
(* A path is a sequence of characters, "NUL" standing for the null byte    *)
(* and "BACKTICK" for the backquote; a resolved path is the sequence of    *)
(* its components below the root.                                          *)
(* Resolution is lexical: the file system has no symbolic links.           *)
(***************************************************************************)

\* Bounds of the path model.
MaxPathLen == 3
MaxParts == 3
MaxDepthArg == 1

PathSecurityError(message) == Err("PathSecurityError", message)

Contains(path, chars) == \E i \in 1..Len(path) : path[i] \in chars
ContainsPair(path, first, second) ==
    \E i \in 1..(Len(path) - 1) : path[i] = first /\ path[i + 1] \in second

RECURSIVE SkipSpaces(_, _)
SkipSpaces(path, i) ==
    IF i <= Len(path) /\ path[i] = " " THEN SkipSpaces(path, i + 1) ELSE i

\* re.search(r'>\s*/', path) and re.search(r'<\s*/', path)
Redirects(path, c) ==
    \E i \in 1..Len(path) :
        /\ path[i] = c
        /\ SkipSpaces(path, i + 1) <= Len(path)
        /\ path[SkipSpaces(path, i + 1)] = "/"

\* _check_shell_injection: the patterns in the order of dangerous_patterns
CheckShellInjection(path) ==
    IF Contains(path, {";", "&", "|", "BACKTICK", "$"})
    THEN PathSecurityError("Shell metacharacters not allowed")
    ELSE IF ContainsPair(path, "$", {"("})
    THEN PathSecurityError("Command substitution not allowed")
    ELSE IF ContainsPair(path, "$", {"{"})
    THEN PathSecurityError("Variable expansion not allowed")
    ELSE IF Redirects(path, ">")
    THEN PathSecurityError("Output redirection not allowed")
    ELSE IF Redirects(path, "<")
    THEN PathSecurityError("Input redirection not allowed")
    ELSE IF ContainsPair(path, "|", {"|"})
    THEN PathSecurityError("OR operator not allowed")
    ELSE IF ContainsPair(path, "&", {"&"})
    THEN PathSecurityError("AND operator not allowed")
    ELSE IF ContainsPair(path, "\\", {"n", "r"})
    THEN PathSecurityError("Newline escapes not allowed")
    ELSE IF Contains(path, {"NUL"})
    THEN PathSecurityError("Null bytes not allowed")
    ELSE NoExc

\* The components of a path, empty ones dropped.
RECURSIVE Split(_, _, _)
Split(path, i, current) ==
    IF i > Len(path) THEN (IF current = <<>> THEN <<>> ELSE <<current>>)
    ELSE IF path[i] = "/"
    THEN (IF current = <<>> THEN <<>> ELSE <<current>>) \o Split(path, i + 1, <<>>)
    ELSE Split(path, i + 1, Append(current, path[i]))

\* Path.resolve(): a dot is dropped, two dots step up, never above the root
RECURSIVE Walked(_, _)
Walked(at, parts) ==
    IF parts = <<>> THEN at
    ELSE IF Head(parts) = <<".">> THEN Walked(at, Tail(parts))
    ELSE IF Head(parts) = <<".", ".">>
    THEN Walked(IF at = <<>> THEN at ELSE Front(at), Tail(parts))
    ELSE Walked(Append(at, Head(parts)), Tail(parts))

\* (base / path).resolve(): an absolute path replaces the base
ResolvedPath(base, path) ==
    IF path # <<>> /\ path[1] = "/" THEN Walked(<<>>, Split(path, 1, <<>>))
    ELSE Walked(base, Split(path, 1, <<>>))

\* resolved.relative_to(base_dir) succeeds
IsRelativeTo(resolved, base) ==
    Len(resolved) >= Len(base) /\ SubSeq(resolved, 1, Len(base)) = base

\* The working directory and the base directory of the calls.
Cwd == <<<<"home">>>>
BaseDir == <<"dir", <<<<"app">>>>>>

\* resolve_safe_path(path, base_dir, allow_traversal, max_depth)
ResolveSafePath(path, base_dir, allow_traversal, max_depth) ==
    IF CheckShellInjection(path) # NoExc THEN CheckShellInjection(path)
    ELSE IF Contains(path, {"NUL"}) THEN PathSecurityError("Null bytes not allowed in path")
    ELSE LET base == IF base_dir # None THEN base_dir[2] ELSE Cwd
             resolved == ResolvedPath(base, path)
         IN  IF base_dir # None /\ ~allow_traversal /\ ~IsRelativeTo(resolved, base)
             THEN PathSecurityError("Path traversal not allowed")
             ELSE IF max_depth = None THEN Ok(resolved)
             ELSE IF base_dir # None /\ ~IsRelativeTo(resolved, base)
             THEN Err("ValueError", "")
             ELSE LET depth == IF base_dir # None
                               THEN (Len(resolved) - Len(base)) - 1
                               ELSE (Len(resolved) + 1) - 1
                  IN  IF depth > max_depth[2] THEN PathSecurityError("Path depth exceeds maximum")
                      ELSE Ok(resolved)

Bool(b) == <<"bool", b>>

\* is_safe_filename(filename)
IsSafeFilename(filename) ==
    IF filename = <<>> THEN Bool(FALSE)
    ELSE IF Contains(filename, {"/", "\\"}) THEN Bool(FALSE)
    ELSE IF filename \in {<<".">>, <<".", ".">>} THEN Bool(FALSE)
    ELSE Bool(CheckShellInjection(filename) = NoExc)

\* Paths of the calls: every text up to MaxPathLen characters, and every
\* path of up to MaxParts components, relative or absolute.
PathChars == {"a", ".", "/", " ", "\\", "n", "NUL",
              ";", "&", "|", "BACKTICK", "$", "(", ")", "{", "}", "<", ">"}
CharPaths == UNION {[1..k -> PathChars] : k \in 0..MaxPathLen}
PartNames == {<<"a">>, <<"b">>, <<".">>, <<".", ".">>}
PartLists == UNION {[1..k -> PartNames] : k \in 0..MaxParts}

RECURSIVE Join(_)
Join(parts) ==
    IF parts = <<>> THEN <<>>
    ELSE IF Len(parts) = 1 THEN parts[1]
    ELSE parts[1] \o <<"/">> \o Join(Tail(parts))
PartPaths == {Join(parts) : parts \in PartLists} \cup {<<"/">> \o Join(parts) : parts \in PartLists}

BaseDirs == {None, BaseDir}
MaxDepths == {None} \cup {IntVal(d) : d \in 0..MaxDepthArg}

InitPath ==
    /\ LoaderIdle
    /\ CtxIdle
    /\ EvalIdle
    /\ ThemeIdle
    /\ SearchIdle
    /\ LayoutIdle
    /\ MdIdle
    /\ LruIdle
    /\ DeckIdle
    /\ WatcherIdle
    /\ ViewerIdle
    /\ p_in = <<>>
    /\ p_out = <<>>

ResolveSafePathCall(path, base_dir, allow_traversal, max_depth) ==
    /\ p_out = <<>>
    /\ p_in' = <<"resolve_safe_path", path, base_dir, allow_traversal, max_depth>>
    /\ p_out' = ResolveSafePath(path, base_dir, allow_traversal, max_depth)

IsSafeFilenameCall(filename) ==
    /\ p_out = <<>>
    /\ p_in' = <<"is_safe_filename", filename>>
    /\ p_out' = IsSafeFilename(filename)

NextPath ==
    \/ /\ p_out = <<>>
       /\ \E path \in CharPaths, base_dir \in BaseDirs, allow_traversal \in BOOLEAN :
              /\ ResolveSafePathCall(path, base_dir, allow_traversal, None)
              /\ UNCHANGED nonPathVars
    \/ /\ p_out = <<>>
       /\ \E path \in PartPaths, base_dir \in BaseDirs, allow_traversal \in BOOLEAN,
             max_depth \in MaxDepths :
              /\ ResolveSafePathCall(path, base_dir, allow_traversal, max_depth)
              /\ UNCHANGED nonPathVars
    \/ /\ p_out = <<>>
       /\ \E filename \in CharPaths :
              IsSafeFilenameCall(filename) /\ UNCHANGED nonPathVars

SpecPath == InitPath /\ [][NextPath]_vars

\* The characters the specification lists as shell metacharacters.
ShellMetacharacters == {";", "&", "|", "BACKTICK", "$", "(", ")", "{", "}", "<", ">"}

\* The path resolves outside the base directory; its depth below the base
\* directory, or below the root when there is none.
EscapesBase(path, base_dir) ==
    base_dir # None /\ ~IsRelativeTo(ResolvedPath(base_dir[2], path), base_dir[2])
DepthOf(path, base_dir) ==
    IF base_dir # None
    THEN Len(ResolvedPath(base_dir[2], path)) - Len(base_dir[2]) - 1
    ELSE Len(ResolvedPath(Cwd, path))

\* C10: resolve_safe_path raises PathSecurityError for a path that contains
\* one of ; & | ` $ ( ) { } < > or a null byte, that resolves outside base_dir
\* when traversal is not allowed, or that lies deeper than max_depth;
\* is_safe_filename returns False for these, for a name with a path
\* separator, and for the names . and ..
C10_RejectsUnsafe ==
    p_out # <<>> =>
        IF p_in[1] = "resolve_safe_path"
        THEN (\/ Contains(p_in[2], ShellMetacharacters \cup {"NUL"})
              \/ ~p_in[4] /\ EscapesBase(p_in[2], p_in[3])
              \/ /\ p_in[5] # None
                 /\ ~EscapesBase(p_in[2], p_in[3])
                 /\ DepthOf(p_in[2], p_in[3]) > p_in[5][2])
                 => (p_out[1] = "err" /\ p_out[2] = "PathSecurityError")
        ELSE (\/ Contains(p_in[2], ShellMetacharacters \cup {"NUL", "/", "\\"})
              \/ p_in[2] \in {<<".">>, <<".", ".">>})
                 => p_out = Bool(FALSE)

(***************************************************************************)
(*                  ThemeLoader: symbols and search paths                  *)
(*                                                                         *)
(* A symbol and a file name are sequences of characters, a word of letters *)
(* standing for its letters; a directory is the sequence of its            *)
(* components.  The file system has no symbolic links.                     *)
(***************************************************************************)

Words == {"default", "custom", "bright", "dark"}
IsAlnum(c) == c \in Words

\* str.isalnum: every character is alphanumeric and there is at least one.
IsAlnumText(text) == text # <<>> /\ \A i \in 1..Len(text) : IsAlnum(text[i])

PackageThemesDir == <<"site-packages", "stagdeck", "templates", "themes">>
WorkDir == <<"home">>

\* The directories and the theme files on disk.
Directories == {PackageThemesDir, WorkDir, <<"home", "themes">>, <<"srv", "themes">>}
ThemeFiles ==
    {PackageThemesDir \o <<<<"bright", ".json">>>>,
     <<"home", "themes", <<"bright", ".json">>>>,
     <<"srv", "themes", <<"dark", ".json">>>>}

\* Path(path).resolve(): a relative path is taken from the working directory.
Absolute(path) == IF path[1] = "rel" THEN WorkDir \o path[2] ELSE path[2]

NewSearchPaths == (<<"default">> :> PackageThemesDir)

\* ThemeLoader.add_search_path: the outcome and the search paths after it.
AddSearchPath(paths, symbol, path) ==
    IF /\ ~IsAlnumText(symbol) /\ symbol # <<"_">>
       /\ ~\A i \in 1..Len(symbol) : IsAlnum(symbol[i]) \/ symbol[i] = "_"
    THEN Outcome(Err("ValueError", "symbol"), paths)
    ELSE IF Absolute(path) \notin Directories
    THEN Outcome(Err("ValueError", "directory"), paths)
    ELSE Outcome(Ok(None), (symbol :> Absolute(path)) @@ paths)

\* ThemeLoader.remove_search_path
RemoveSearchPath(paths, symbol) ==
    IF symbol # <<"default">>
    THEN [s \in DOMAIN paths \ {symbol} |-> paths[s]]
    ELSE paths

\* str.split(':', 1) of a reference that contains a colon.
HasColon(reference) == \E i \in 1..Len(reference) : reference[i] = ":"
ColonAt(reference) == CHOOSE i \in 1..Len(reference) :
    reference[i] = ":" /\ \A j \in 1..(i - 1) : reference[j] # ":"
SymbolOf(reference) == SubSeq(reference, 1, ColonAt(reference) - 1)
FilenameOf(reference) == SubSeq(reference, ColonAt(reference) + 1, Len(reference))

EndsWithJson(filename) == filename # <<>> /\ Last(filename) = ".json"

\* ThemeLoader.resolve_theme_path(reference, current_dir)
ResolveThemeReference(paths, reference, current_dir) ==
    IF HasColon(reference) /\ SymbolOf(reference) \notin DOMAIN paths
    THEN Err("ThemeLoadError", "symbol")
    ELSE IF ~HasColon(reference) /\ current_dir = None
    THEN Err("ThemeLoadError", "relative")
    ELSE LET base_dir == IF HasColon(reference) THEN paths[SymbolOf(reference)]
                         ELSE current_dir[2]
             filename == IF HasColon(reference) THEN FilenameOf(reference)
                         ELSE reference
             resolved == Append(base_dir, filename)
         IN  IF IsSafeFilename(filename) # Bool(TRUE)
             THEN Err("PathSecurityError", "filename")
             ELSE IF ~EndsWithJson(filename)
             THEN Err("PathSecurityError", "extension")
             ELSE IF ~IsRelativeTo(resolved, base_dir)
             THEN Err("PathSecurityError", "escapes")
             ELSE IF resolved \notin ThemeFiles
             THEN Err("ThemeLoadError", "notfound")
             ELSE Ok(resolved)

Symbols == {<<"default">>, <<"custom">>, <<"_">>, <<"custom", "_">>, <<"custom", "-">>, <<>>}
PathArgs ==
    {<<"abs", d>> : d \in Directories \ {WorkDir}}
        \cup {<<"rel", <<"themes">>>>, <<"rel", <<"nowhere">>>>,
              <<"abs", <<"home", "themes", <<"bright", ".json">>>>>>}
FileNames ==
    {<<"bright", ".json">>, <<"dark", ".json">>, <<"bright">>, <<".", ".">>,
     <<"/", "bright", ".json">>, <<"bright", ";", ".json">>}
References ==
    {s \o <<":">> \o f : s \in {<<"default">>, <<"custom">>, <<"dark">>}, f \in FileNames}
        \cup FileNames
CurrentDirs == {None, <<"dir", <<"srv", "themes">>>>}

InitSearch ==
    /\ LoaderIdle
    /\ CtxIdle
    /\ EvalIdle
    /\ ThemeIdle
    /\ PathIdle
    /\ LayoutIdle
    /\ MdIdle
    /\ LruIdle
    /\ DeckIdle
    /\ WatcherIdle
    /\ ViewerIdle
    /\ search_paths = NewSearchPaths
    /\ sp_ret = <<>>

AddSearchPathCall(symbol, path) ==
    \E r \in {AddSearchPath(search_paths, symbol, path)} :
        /\ search_paths' = r.cache
        /\ sp_ret' = <<"add_search_path", symbol, r.out>>

RemoveSearchPathCall(symbol) ==
    /\ search_paths' = RemoveSearchPath(search_paths, symbol)
    /\ sp_ret' = <<"remove_search_path", symbol, Ok(None)>>

ResolveThemePathCall(reference, current_dir) ==
    /\ sp_ret' = <<"resolve_theme_path", reference,
                   ResolveThemeReference(search_paths, reference, current_dir)>>
    /\ UNCHANGED search_paths

NextSearch ==
    \/ \E symbol \in Symbols, path \in PathArgs :
           AddSearchPathCall(symbol, path) /\ UNCHANGED nonSearchVars
    \/ \E symbol \in Symbols :
           RemoveSearchPathCall(symbol) /\ UNCHANGED nonSearchVars
    \/ \E reference \in References, current_dir \in CurrentDirs :
           ResolveThemePathCall(reference, current_dir) /\ UNCHANGED nonSearchVars

SpecSearch == InitSearch /\ [][NextSearch]_vars

\* C11: after any add_search_path and remove_search_path calls the symbol
\* default is registered and maps to the bundled theme directory, and a
\* reference default:<file>.json that resolves does so inside that directory.
C11_DefaultIsBundled ==
    search_paths # <<>> =>
        /\ <<"default">> \in DOMAIN search_paths
        /\ search_paths[<<"default">>] = PackageThemesDir
        /\ (/\ sp_ret # <<>>
            /\ sp_ret[1] = "resolve_theme_path"
            /\ HasColon(sp_ret[2])
            /\ SymbolOf(sp_ret[2]) = <<"default">>
            /\ sp_ret[3][1] = "ok")
               => IsRelativeTo(sp_ret[3][2], PackageThemesDir)

(***************************************************************************)
(*               ThemeOverrides: routing of dotted keys                    *)
(***************************************************************************)

\* Every key of palette has no dot, every key of components has one, and
\* get(k) returns what is stored under k.
Routed(o) ==
    /\ \A k \in DOMAIN o.palette : ~Dotted(k) /\ OverridesGet(o, k) = o.palette[k]
    /\ \A k \in DOMAIN o.components : Dotted(k) /\ OverridesGet(o, k) = o.components[k]

\* C12: in the deck and slide overrides of a ThemeContext, whatever calls of
\* override, override_palette, push_slide_override, push_slide_overrides
\* (with overrides made by overrides() or from_dict) and clear were made,
\* palette holds only keys without a dot, components only keys with a dot,
\* and get(k) returns the value stored under k.
C12_KeysRouted == ctx # <<>> => Routed(ctx.deck) /\ Routed(ctx.slide)

\* C13: for every theme, also one whose variables or computed entries refer
\* to themselves or to each other, Theme.get and Theme.resolve return a
\* value or raise ExpressionError.
C13_CyclesEndInExpressionError ==
    (th_ret # NoRead /\ th_ret[1] \in {"get", "resolve"} /\ IsErr(th_ret[3]))
        => th_ret[3][2] = "ExpressionError"

(***************************************************************************)
(*            components/slide_layout.py: content analysis                 *)
(*                                                                         *)
(* A content is a sequence of characters, "NL" standing for the newline,   *)
(* "TAB" for the tab and "BACKTICK" for the backquote.                     *)
(***************************************************************************)

\* \s of the regular expressions and the characters str.strip() removes
IsWhitespace(c) == c \in {" ", "NL", "TAB"}
\* \w
IsWordChar(c) == c \in {"a", "b"}
BulletChars == {"-", "*", "+"}

\* str.strip()
RECURSIVE StripWs(_)
StripWs(text) ==
    IF text = <<>> THEN text
    ELSE IF IsWhitespace(Head(text)) THEN StripWs(Tail(text))
    ELSE IF IsWhitespace(Last(text)) THEN StripWs(Front(text))
    ELSE text

\* str.split(sep): the pieces between the separators, empty ones included
RECURSIVE SplitFrom(_, _, _, _, _)
SplitFrom(text, sep, i, current, pieces) ==
    IF i > Len(text) THEN Append(pieces, current)
    ELSE IF text[i] = sep THEN SplitFrom(text, sep, i + 1, <<>>, Append(pieces, current))
    ELSE SplitFrom(text, sep, i + 1, Append(current, text[i]), pieces)
SplitBy(text, sep) == SplitFrom(text, sep, 1, <<>>, <<>>)

\* '\n'.join(pieces)
RECURSIVE JoinLines(_)
JoinLines(pieces) ==
    IF pieces = <<>> THEN <<>>
    ELSE IF Len(pieces) = 1 THEN pieces[1]
    ELSE pieces[1] \o <<"NL">> \o JoinLines(Tail(pieces))

\* str.count(c)
CountChar(text, c) == Cardinality({i \in 1..Len(text) : text[i] = c})

\* str.startswith(prefix)
StartsWith(text, prefix) ==
    Len(text) >= Len(prefix) /\ SubSeq(text, 1, Len(prefix)) = prefix

Fence == <<"BACKTICK", "BACKTICK", "BACKTICK">>
FenceAt(text, i) == i + 2 <= Len(text) /\ SubSeq(text, i, i + 2) = Fence
\* '```' in content
HasFence(text) == \E i \in 1..Len(text) : FenceAt(text, i)

\* max(len(l) for l in lines) if lines else 0, and sum(len(l) for l in lines)
RECURSIVE MaxLen(_)
MaxLen(lines) ==
    IF lines = <<>> THEN 0
    ELSE LET rest == MaxLen(Tail(lines))
         IN  IF Len(lines[1]) > rest THEN Len(lines[1]) ELSE rest
RECURSIVE SumLen(_)
SumLen(lines) == IF lines = <<>> THEN 0 ELSE Len(lines[1]) + SumLen(Tail(lines))

\* [c.strip() for c in line.split('|') if c.strip()]
StripAll(pieces) == [i \in 1..Len(pieces) |-> StripWs(pieces[i])]
Cells(line) == SelectSeq(StripAll(SplitBy(line, "|")), LAMBDA c : c # <<>>)
RECURSIVE AllCells(_)
AllCells(lines) == IF lines = <<>> THEN <<>> ELSE Cells(lines[1]) \o AllCells(Tail(lines))

\* The first position at or after i that holds no whitespace / no word
\* character (greedy \s* and \w*).
RECURSIVE SkipWhitespace(_, _)
SkipWhitespace(text, i) ==
    IF i <= Len(text) /\ IsWhitespace(text[i]) THEN SkipWhitespace(text, i + 1) ELSE i
RECURSIVE SkipWord(_, _)
SkipWord(text, i) ==
    IF i <= Len(text) /\ IsWordChar(text[i]) THEN SkipWord(text, i + 1) ELSE i

\* ^ with re.MULTILINE
AtLineStart(text, i) == i = 1 \/ text[i - 1] = "NL"

\* ^[\s]*[-*+]\s+ matched at position i: the position after the match, or 0.
BulletMatchEnd(text, i) ==
    LET j == SkipWhitespace(text, i)
    IN  IF /\ AtLineStart(text, i)
           /\ j <= Len(text) /\ text[j] \in BulletChars
           /\ j + 1 <= Len(text) /\ IsWhitespace(text[j + 1])
        THEN SkipWhitespace(text, j + 1)
        ELSE 0

\* len(re.findall(bullet_pattern, content, re.MULTILINE)): matches are taken
\* from left to right and do not overlap.
RECURSIVE BulletMatches(_, _)
BulletMatches(text, i) ==
    IF i > Len(text) THEN 0
    ELSE IF BulletMatchEnd(text, i) # 0
    THEN 1 + BulletMatches(text, BulletMatchEnd(text, i))
    ELSE BulletMatches(text, i + 1)

\* The first fence at or after position i, or 0.
RECURSIVE NextFence(_, _)
NextFence(text, i) ==
    IF i > Len(text) THEN 0
    ELSE IF FenceAt(text, i) THEN i
    ELSE NextFence(text, i + 1)

\* ```\w*\n(.*?)``` matched at position i: <<group, position after>>, or <<>>.
CodeMatch(text, i) ==
    LET j == SkipWord(text, i + 3)
    IN  IF FenceAt(text, i) /\ j <= Len(text) /\ text[j] = "NL"
           /\ NextFence(text, j + 1) # 0
        THEN <<SubSeq(text, j + 1, NextFence(text, j + 1) - 1),
               NextFence(text, j + 1) + 3>>
        ELSE <<>>

\* re.findall(r'```\w*\n(.*?)```', content, re.DOTALL)
RECURSIVE CodeBlocks(_, _)
CodeBlocks(text, i) ==
    IF i > Len(text) THEN <<>>
    ELSE IF CodeMatch(text, i) # <<>>
    THEN <<CodeMatch(text, i)[1]>> \o CodeBlocks(text, CodeMatch(text, i)[2])
    ELSE CodeBlocks(text, i + 1)

\* ContentMetrics(); avg_cell_length is kept as an exact fraction.
ContentMetrics ==
    [content_type |-> "text", table_rows |-> 0, table_cols |-> 0,
     avg_cell_length |-> Num(0, 1), max_cell_length |-> 0,
     bullet_count |-> 0, max_line_length |-> 0,
     code_lines |-> 0, max_code_line_length |-> 0,
     total_chars |-> 0, line_count |-> 0]

IsTableLine(l) == StartsWith(StripWs(l), <<"|">>)
IsSeparatorLine(l) ==
    StartsWith(StripWs(l), <<"|", "-", "-">>) \/ StartsWith(StripWs(l), <<"|", "-">>)

TableMetrics(metrics, content) ==
    LET lines == SelectSeq(SplitBy(content, "NL"), IsTableLine)
        data_lines == SelectSeq(lines, LAMBDA l : ~IsSeparatorLine(l))
        all_cells == AllCells(data_lines)
    IN  [metrics EXCEPT
            !.content_type = "table",
            !.table_rows = Len(data_lines),
            !.table_cols = IF lines # <<>> THEN Len(Cells(lines[1])) ELSE 0,
            !.avg_cell_length =
                IF all_cells # <<>> THEN Num(SumLen(all_cells), Len(all_cells)) ELSE @,
            !.max_cell_length = IF all_cells # <<>> THEN MaxLen(all_cells) ELSE @]

CodeMetrics(metrics, content) ==
    LET code_blocks == CodeBlocks(content, 1)
        code_lines == SplitBy(JoinLines(code_blocks), "NL")
    IN  IF code_blocks # <<>>
        THEN [metrics EXCEPT !.content_type = "code",
                             !.code_lines = Len(code_lines),
                             !.max_code_line_length = MaxLen(code_lines)]
        ELSE [metrics EXCEPT !.content_type = "code"]

\* analyze_content(content)
AnalyzeStripped(content) ==
    LET metrics == [ContentMetrics EXCEPT
                        !.total_chars = Len(content),
                        !.line_count = CountChar(content, "NL") + 1]
    IN  IF StartsWith(content, <<"|">>) /\ CountChar(content, "|") > 0
        THEN TableMetrics(metrics, content)
        ELSE IF HasFence(content)
        THEN CodeMetrics(metrics, content)
        ELSE IF BulletMatches(content, 1) > 0
        THEN [metrics EXCEPT !.content_type = "bullets",
                             !.bullet_count = BulletMatches(content, 1),
                             !.max_line_length = MaxLen(SplitBy(content, "NL"))]
        ELSE [metrics EXCEPT !.content_type = "text",
                             !.max_line_length = MaxLen(SplitBy(content, "NL"))]

AnalyzeContent(content) ==
    IF StripWs(content) = <<>> THEN ContentMetrics
    ELSE AnalyzeStripped(StripWs(content))

\* Comparison of exact fractions, min and max.
RLess(x, y) == x[2] * y[3] < y[2] * x[3]
RLeq(x, y) == x[2] * y[3] <= y[2] * x[3]
RMin(x, y) == IF RLess(y, x) THEN y ELSE x
RMax(x, y) == IF RLess(x, y) THEN y ELSE x

\* LayoutConfig(): the sizes and the minimum scale factor.
DefaultConfig ==
    [base_text_size |-> Num(2, 1), base_table_size |-> Num(18, 10),
     base_code_size |-> Num(16, 10), min_scale |-> Num(4, 10)]

\* The scale of a table by its number of rows; with the two lowest steps
\* exchanged.
TableRowScaleExchanged(table_rows) ==
    IF table_rows <= 5 THEN Num(16, 10)
    ELSE IF table_rows <= 7 THEN Num(14, 10)
    ELSE IF table_rows <= 8 THEN Num(12, 10)
    ELSE IF table_rows <= 10 THEN Num(1, 1)
    ELSE IF table_rows <= 12 THEN Num(65, 100)
    ELSE Num(8, 10)
TableRowScale(table_rows) ==
    IF table_rows <= 5 THEN Num(16, 10)
    ELSE IF table_rows <= 7 THEN Num(14, 10)
    ELSE IF table_rows <= 8 THEN Num(12, 10)
    ELSE IF table_rows <= 10 THEN Num(1, 1)
    ELSE IF table_rows <= 12 THEN Num(8, 10)
    ELSE Num(65, 100)

TableColsFactor(table_cols) ==
    IF table_cols > 6 THEN Num(9, 10)
    ELSE IF table_cols > 5 THEN Num(95, 100)
    ELSE Num(1, 1)

CellLengthFactor(avg_cell_length) ==
    IF RLess(Num(30, 1), avg_cell_length) THEN Num(9, 10)
    ELSE IF RLess(Num(20, 1), avg_cell_length) THEN Num(95, 100)
    ELSE Num(1, 1)

TableScale(metrics) ==
    RMul(RMul(TableRowScale(metrics.table_rows), TableColsFactor(metrics.table_cols)),
         CellLengthFactor(metrics.avg_cell_length))

BulletsScale(metrics) ==
    LET by_count == IF metrics.bullet_count > 10 THEN Num(7, 10)
                    ELSE IF metrics.bullet_count > 8 THEN Num(8, 10)
                    ELSE IF metrics.bullet_count > 6 THEN Num(9, 10)
                    ELSE Num(1, 1)
    IN  IF metrics.max_line_length > 100 THEN RMin(by_count, Num(8, 10))
        ELSE IF metrics.max_line_length > 80 THEN RMin(by_count, Num(9, 10))
        ELSE by_count

CodeScale(metrics) ==
    LET by_lines == IF metrics.code_lines > 20 THEN Num(7, 10)
                    ELSE IF metrics.code_lines > 15 THEN Num(8, 10)
                    ELSE IF metrics.code_lines > 10 THEN Num(9, 10)
                    ELSE Num(1, 1)
    IN  IF metrics.max_code_line_length > 80 THEN RMin(by_lines, Num(8, 10))
        ELSE IF metrics.max_code_line_length > 60 THEN RMin(by_lines, Num(9, 10))
        ELSE by_lines

TextScale(metrics) ==
    IF metrics.total_chars > 800 THEN Num(7, 10)
    ELSE IF metrics.total_chars > 500 THEN Num(85, 100)
    ELSE Num(1, 1)

\* max(scale, config.min_scale), and without it
NotFloored(scale, config) == scale
ApplyMinScale(scale, config) == RMax(scale, config.min_scale)

\* calculate_content_scale(metrics, config): <<font size in rem, scale>>
CalculateContentScale(metrics, config) ==
    LET base_size == IF metrics.content_type = "table" THEN config.base_table_size
                     ELSE IF metrics.content_type = "code" THEN config.base_code_size
                     ELSE config.base_text_size
        scale == IF metrics.content_type = "table" THEN TableScale(metrics)
                 ELSE IF metrics.content_type = "bullets" THEN BulletsScale(metrics)
                 ELSE IF metrics.content_type = "code" THEN CodeScale(metrics)
                 ELSE TextScale(metrics)
    IN  <<RMul(base_size, ApplyMinScale(scale, config)), ApplyMinScale(scale, config)>>

SmallContentChars == 300
SmallContentNewlines == 8

\* is_small of detect_layout_mode; with the length of the content as given
\* in place of the stripped one.
IsSmallUnstripped(content) ==
    /\ Len(content) < SmallContentChars
    /\ CountChar(content, "|") = 0
    /\ ~HasFence(content)
    /\ CountChar(content, "NL") < SmallContentNewlines
IsSmall(content) ==
    /\ Len(StripWs(content)) < SmallContentChars
    /\ CountChar(StripWs(content), "|") = 0
    /\ ~HasFence(StripWs(content))
    /\ CountChar(StripWs(content), "NL") < SmallContentNewlines

\* detect_layout_mode(slide)
DetectLayoutMode(slide) ==
    LET has_title == slide.title # <<>>
        has_content == slide.content # <<>> \/ slide.custom_build
        has_subtitle == slide.subtitle # <<>>
    IN  IF has_title /\ ~has_content /\ ~has_subtitle THEN "TITLE_ONLY"
        ELSE IF has_title /\ has_subtitle /\ ~has_content THEN "TITLE_ONLY"
        ELSE IF ~has_title /\ has_content THEN "CONTENT_ONLY"
        ELSE IF has_title /\ has_subtitle /\ has_content /\ IsSmall(slide.content)
        THEN "TITLE_CENTERED"
        ELSE "TITLE_CONTENT"

RemToPxFactor == 20

\* Slide.get_sizing_content
GetSizingContent(slide) ==
    IF slide.final_content # None THEN slide.final_content[2] ELSE slide.content

\* _render_content(content, style, config, is_full_page): the font size in
\* px of the body, None when nothing is rendered.
RenderContent(content, config, is_full_page) ==
    IF content = <<>> THEN None
    ELSE LET font_size == CalculateContentScale(AnalyzeContent(content), config)[1]
         IN  RMul(IF is_full_page THEN RMul(font_size, Num(12, 10)) ELSE font_size,
                  Num(RemToPxFactor, 1))

\* _build_title_content and _build_content_only: sizing_content is a
\* parameter of both.
BuildTitleContent(slide, config, sizing_content) ==
    RenderContent(slide.content, config, FALSE)
BuildContentOnly(slide, config, sizing_content) ==
    RenderContent(slide.content, config, TRUE)

SplitPositions == {"left", "right", "top", "bottom"}

\* build_slide_layout for a slide of one region: the layout that is built
\* and the font size of the body, None when the layout sets none.
BuildSlideLayout(slide, config, final_content) ==
    LET mode == DetectLayoutMode(slide)
        sizing_content == IF final_content # None THEN final_content[2] ELSE slide.content
    IN  IF slide.background_position \in SplitPositions
        THEN [layout |-> "TITLE_CONTENT",
              body |-> BuildTitleContent(slide, config, sizing_content)]
        ELSE IF mode = "TITLE_ONLY" THEN [layout |-> mode, body |-> None]
        ELSE IF mode = "TITLE_CENTERED" THEN [layout |-> mode, body |-> None]
        ELSE IF mode = "CONTENT_ONLY"
        THEN [layout |-> mode, body |-> BuildContentOnly(slide, config, sizing_content)]
        ELSE [layout |-> mode, body |-> BuildTitleContent(slide, config, sizing_content)]

\* Slide._build_default_content
BuildDefaultContent(slide) ==
    BuildSlideLayout(slide, DefaultConfig, StrVal(GetSizingContent(slide)))

\* Contents handed to analyze_content: up to MaxContentLines lines.
MaxContentLines == 3
MaxTableRows == 21
MaxBullets == 11

ContentLines ==
    {<<>>, <<"a">>, <<"-">>, <<"-", " ">>, <<"-", " ", "a">>, <<" ", "-", " ", "a">>,
     <<"*", " ", "b">>, <<"|", "a", "|", "b", "|">>, <<"|", "-", "|">>, <<"|", ":", "-", "|">>,
     <<"a", "|">>, Fence, Fence \o <<"a">>, <<"TAB">>}
Contents ==
    {JoinLines(lines) : lines \in UNION {[1..k -> ContentLines] : k \in 1..MaxContentLines}}

\* Metrics handed to calculate_content_scale, around every threshold and far
\* beyond.
TableRowCounts == (-1)..MaxTableRows \cup {1000}
TableColCounts == {0, 5, 6, 7, 100}
CellLengths == {Num(0, 1), Num(20, 1), Num(41, 2), Num(30, 1), Num(31, 1), Num(1000, 1)}
BulletCounts == {0, 6, 7, 8, 9, 10, 11, 1000}
LineLengths == {0, 60, 61, 80, 81, 100, 101, 100000}
CodeLineCounts == {0, 10, 11, 15, 16, 20, 21, 1000}
CharCounts == {0, 500, 501, 800, 801, 1000000}
Configs ==
    {DefaultConfig, [DefaultConfig EXCEPT !.min_scale = Num(9, 10)],
     [DefaultConfig EXCEPT !.min_scale = Num(2, 1)]}

\* Slides handed to detect_layout_mode.
Text(n) == [i \in 1..n |-> "a"]
LinesText(newlines) == [i \in 1..(2 * newlines + 1) |-> IF i % 2 = 0 THEN "NL" ELSE "a"]
DetectContents ==
    {<<>>, <<" ">>, <<"a">>,
     Text(SmallContentChars - 1), Text(SmallContentChars),
     <<" ">> \o Text(SmallContentChars - 1) \o <<" ">>,
     LinesText(SmallContentNewlines - 1), LinesText(SmallContentNewlines),
     LinesText(SmallContentNewlines - 1) \o <<"NL">>,
     <<"|", "a", "|">>, <<" ", "|", "a", "|">>, <<"a", "|", "a">>,
     Fence \o <<"NL", "a", "NL">> \o Fence, <<"a", "BACKTICK", "a">>}
Titles == {<<>>, <<"T">>}

\* Slides handed to Slide.build at a reveal step: the content shows the
\* first bullets, final_content all of them.
Bullets(k) == JoinLines([i \in 1..k |-> <<"-", " ", "a">>])
FinalContents == {None, StrVal(<<>>), StrVal(Bullets(7)), StrVal(Bullets(MaxBullets))}
BackgroundPositions == {"", "left"}

InitLayout ==
    /\ LoaderIdle
    /\ CtxIdle
    /\ EvalIdle
    /\ ThemeIdle
    /\ PathIdle
    /\ SearchIdle
    /\ MdIdle
    /\ LruIdle
    /\ DeckIdle
    /\ WatcherIdle
    /\ ViewerIdle
    /\ sl_in = <<>>
    /\ sl_out = <<>>

AnalyzeContentCall(content) ==
    /\ sl_in' = <<"analyze_content", content>>
    /\ sl_out' = Ok(AnalyzeContent(content))

CalculateContentScaleCall(metrics, config) ==
    /\ sl_in' = <<"calculate_content_scale", metrics, config>>
    /\ sl_out' = Ok(CalculateContentScale(metrics, config))

DetectLayoutModeCall(slide) ==
    /\ sl_in' = <<"detect_layout_mode", slide>>
    /\ sl_out' = Ok(DetectLayoutMode(slide))

BuildCall(slide) ==
    /\ sl_in' = <<"build", slide>>
    /\ sl_out' = Ok(BuildDefaultContent(slide))

NextLayout ==
    \/ /\ sl_out = <<>>
       /\ \E content \in Contents :
              AnalyzeContentCall(content) /\ UNCHANGED nonLayoutVars
    \/ /\ sl_out = <<>>
       /\ \E rows \in TableRowCounts, cols \in TableColCounts, avg \in CellLengths,
             config \in Configs :
              /\ CalculateContentScaleCall(
                     [ContentMetrics EXCEPT !.content_type = "table", !.table_rows = rows,
                                            !.table_cols = cols, !.avg_cell_length = avg],
                     config)
              /\ UNCHANGED nonLayoutVars
    \/ /\ sl_out = <<>>
       /\ \E count \in BulletCounts, length \in LineLengths, config \in Configs :
              /\ CalculateContentScaleCall(
                     [ContentMetrics EXCEPT !.content_type = "bullets",
                                            !.bullet_count = count,
                                            !.max_line_length = length],
                     config)
              /\ UNCHANGED nonLayoutVars
    \/ /\ sl_out = <<>>
       /\ \E count \in CodeLineCounts, length \in LineLengths, config \in Configs :
              /\ CalculateContentScaleCall(
                     [ContentMetrics EXCEPT !.content_type = "code",
                                            !.code_lines = count,
                                            !.max_code_line_length = length],
                     config)
              /\ UNCHANGED nonLayoutVars
    \/ /\ sl_out = <<>>
       /\ \E chars \in CharCounts, config \in Configs :
              /\ CalculateContentScaleCall(
                     [ContentMetrics EXCEPT !.total_chars = chars], config)
              /\ UNCHANGED nonLayoutVars
    \/ /\ sl_out = <<>>
       /\ \E title \in Titles, subtitle \in Titles, content \in DetectContents,
             custom_build \in BOOLEAN :
              /\ DetectLayoutModeCall([title |-> title, subtitle |-> subtitle,
                                       content |-> content, custom_build |-> custom_build])
              /\ UNCHANGED nonLayoutVars
    \/ /\ sl_out = <<>>
       /\ \E title \in Titles, subtitle \in Titles, shown \in 0..MaxBullets,
             final_content \in FinalContents, position \in BackgroundPositions :
              /\ BuildCall([title |-> title, subtitle |-> subtitle,
                            content |-> Bullets(shown), final_content |-> final_content,
                            custom_build |-> FALSE, background_position |-> position])
              /\ UNCHANGED nonLayoutVars

SpecLayout == InitLayout /\ [][NextLayout]_vars

Called(function) == sl_out # <<>> /\ sl_in[1] = function
\* What the call returned.
Returned == sl_out[2]

\* A line that matches ^\s*[-*+]\s+ : white space, a bullet character, white
\* space.
LineIsBullet(line) ==
    \E j \in 1..Len(line) :
        /\ \A i \in 1..(j - 1) : IsWhitespace(line[i])
        /\ line[j] \in BulletChars
        /\ j + 1 <= Len(line) /\ IsWhitespace(line[j + 1])
BulletLineCount(content) ==
    Cardinality({i \in 1..Len(SplitBy(content, "NL")) :
                    LineIsBullet(SplitBy(content, "NL")[i])})

\* The lines at whose start the pattern matches in the content, its white
\* space running over line ends (the wider reading of "a line matching").
BulletStartCount(content) ==
    Cardinality({i \in 1..Len(content) : BulletMatchEnd(content, i) # 0})

\* C14: analyze_content gives one content type by priority: stripped
\* content that starts with | is a table; otherwise content with a ``` fence
\* is code; otherwise content with a bullet line is bullets, bullet_count
\* being the number of bullet lines; otherwise it is text; empty content is
\* text with every count zero.  A bullet line is a line that matches the
\* pattern taken alone; where the wider reading differs, either type and
\* every count from the one to the other is accepted.
C14_ContentTypePriority ==
    Called("analyze_content") =>
        LET content == StripWs(sl_in[2])
            counts == {BulletLineCount(content), BulletStartCount(content)}
        IN  IF content = <<>> THEN Returned = ContentMetrics
            ELSE IF content[1] = "|" THEN Returned.content_type = "table"
            ELSE IF HasFence(content) THEN Returned.content_type = "code"
            ELSE IF counts = {0} THEN Returned.content_type = "text"
            ELSE IF 0 \in counts /\ Returned.content_type = "text" THEN TRUE
            ELSE /\ Returned.content_type = "bullets"
                 /\ \E low \in counts, high \in counts :
                        low <= Returned.bullet_count /\ Returned.bullet_count <= high

C16_LayoutMode ==
    Called("detect_layout_mode") =>
        LET slide == sl_in[2]
            title == slide.title # <<>>
            subtitle == slide.subtitle # <<>>
            content == slide.content # <<>> \/ slide.custom_build
            stripped == StripWs(slide.content)
            small == /\ Len(stripped) < 300
                     /\ \A i \in 1..Len(stripped) : stripped[i] # "|"
                     /\ ~HasFence(stripped)
                     /\ CountChar(stripped, "NL") < 8
        IN  /\ Returned = IF title /\ ~content THEN "TITLE_ONLY"
                        ELSE IF ~title /\ content THEN "CONTENT_ONLY"
                        ELSE IF title /\ subtitle /\ content /\ small
                        THEN "TITLE_CENTERED"
                        ELSE "TITLE_CONTENT"
            /\ StartsWith(stripped, <<"|">>) => Returned # "TITLE_CENTERED"

C16_Witness ==
    /\ Called("detect_layout_mode")
    /\ sl_in[2].title # <<>> /\ sl_in[2].subtitle # <<>>
    /\ Len(sl_in[2].content) >= 300 /\ Len(StripWs(sl_in[2].content)) < 300
    /\ Returned = "TITLE_CENTERED"

\* C17: for a slide with final_content set, the font size of the rendered
\* body is the one computed from the sizing content (final_content), not
\* from the content shown at the step.
C17_SizedFromFinalContent ==
    (/\ Called("build")
     /\ sl_in[2].final_content # None
     /\ Returned.layout \in {"CONTENT_ONLY", "TITLE_CONTENT"}
     /\ sl_in[2].content # <<>>)
        => Returned.body = RenderContent(GetSizingContent(sl_in[2]), DefaultConfig,
                                       Returned.layout = "CONTENT_ONLY")

\* A separator line of a table: made only of '|', '-', ':' and spaces, with
\* at least one '-'
IsPureSeparator(line) ==
    /\ \A i \in 1..Len(line) : line[i] \in {"|", "-", ":", " "}
    /\ \E i \in 1..Len(line) : line[i] = "-"
\* The rows of a table: the lines that start with '|', and those of them
\* that are no separator lines
RowLines(content) == SelectSeq(SplitBy(content, "NL"), IsTableLine)
DataRows(content) == SelectSeq(RowLines(content), LAMBDA l : ~IsPureSeparator(l))

\* C24: for content classified as table, table_rows is the number of lines
\* starting with '|' that are no separator lines, table_cols the number of
\* cells of the first row, and avg_cell_length and max_cell_length are taken
\* over the cells of the rows that are no separator lines.
C24_TableRows ==
    (Called("analyze_content") /\ Returned.content_type = "table") =>
        LET content == StripWs(sl_in[2])
            cells == AllCells(DataRows(content))
        IN  /\ Returned.table_rows = Len(DataRows(content))
            /\ Returned.table_cols = Len(Cells(RowLines(content)[1]))
            /\ cells # <<>> =>
                  /\ Returned.avg_cell_length = Num(SumLen(cells), Len(cells))
                  /\ Returned.max_cell_length = MaxLen(cells)

(***************************************************************************)
(* MarkdownParser.parse_multi_region_markdown                               *)
(* (src/stagdeck/components/markdown_parser.py)                             *)
(*                                                                         *)
(* The markdown of a slide is a sequence of characters, as a content is.   *)
(* A parse result is a record of the entries of the dictionary the parser  *)
(* returns; a region is a record of the entries of a region dictionary.    *)
(***************************************************************************)

\* A value that is computed once and named in what follows
Let(value, In(_)) == CHOOSE out \in {In(v) : v \in {value}} : TRUE

\* str.lower() on the capital letters of the slides' alphabet
LowerChar(c) ==
    CASE c = "L" -> "l" [] c = "N" -> "n" [] c = "T" -> "t" [] OTHER -> c
Lower(text) == [i \in 1..Len(text) |-> LowerChar(text[i])]

\* sub in text
HasSub(text, sub) ==
    \E i \in 1..(Len(text) - Len(sub) + 1) : SubSeq(text, i, i + Len(sub) - 1) = sub

\* str.split(): the words between runs of whitespace
RECURSIVE WordsFrom(_, _, _, _)
WordsFrom(text, i, current, pieces) ==
    IF i > Len(text) THEN (IF current = <<>> THEN pieces ELSE Append(pieces, current))
    ELSE IF IsWhitespace(text[i])
    THEN WordsFrom(text, i + 1, <<>>, IF current = <<>> THEN pieces ELSE Append(pieces, current))
    ELSE WordsFrom(text, i + 1, Append(current, text[i]), pieces)
SplitWords(text) == WordsFrom(text, 1, <<>>, <<>>)

\* str.find(c, i), counted from 1, 0 when c does not occur
RECURSIVE FirstIndex(_, _, _)
FirstIndex(text, c, i) ==
    IF i > Len(text) THEN 0
    ELSE IF text[i] = c THEN i
    ELSE FirstIndex(text, c, i + 1)

\* ^!\[([^\]]*)\]\((.+)\)\s*$ on a stripped line: <<alt text, url>>, or <<>>
\* when the line does not match.  The alt text ends at the first "]", and
\* the url at the last character of the line, which is the closing ")".
ImageMatch(stripped) ==
    IF ~StartsWith(stripped, <<"!", "[">>) THEN <<>>
    ELSE LET k == FirstIndex(stripped, "]", 3)
         IN  IF k = 0 \/ k + 3 > Len(stripped) THEN <<>>
             ELSE IF stripped[k + 1] # "(" \/ Last(stripped) # ")" THEN <<>>
             ELSE <<SubSeq(stripped, 3, k - 1), SubSeq(stripped, k + 2, Len(stripped) - 1)>>

\* ^\[name:\s*([^\]]+)\]$ with IGNORECASE on a stripped line: <<group(1).strip()>>,
\* or <<>> when the line does not match
NameMatch(stripped) ==
    IF Len(stripped) < 8 THEN <<>>
    ELSE IF Lower(SubSeq(stripped, 1, 6)) # <<"[", "n", "a", "m", "e", ":">> \/ Last(stripped) # "]" THEN <<>>
    ELSE IF FirstIndex(stripped, "]", 7) # Len(stripped) THEN <<>>
    ELSE <<StripWs(SubSeq(stripped, 7, Len(stripped) - 1))>>

\* result['notes'] after a line that starts with "^"
AddNote(notes, stripped) ==
    (IF notes # <<>> THEN notes \o <<"NL">> ELSE notes) \o StripWs(Tail(stripped))

\* \w of the slides' alphabet
MdWordChars ==
    {"a", "b", "c", "d", "e", "g", "h", "i", "k", "l", "m", "n", "o", "p", "r",
     "s", "t", "u", "v", "x", "y", "L", "N", "T", "0", "5", "_"}
RECURSIVE WordEnd(_, _)
WordEnd(text, i) ==
    IF i <= Len(text) /\ text[i] \in MdWordChars THEN WordEnd(text, i + 1) ELSE i

\* ^\[\.(\w+):(\w+):\s*(.+)\]$ on a stripped line
StyleMatch(stripped) ==
    /\ StartsWith(stripped, <<"[", ".">>)
    /\ LET e == WordEnd(stripped, 3)      \* the end of the element
           p == WordEnd(stripped, e + 1)  \* the end of the property
       IN  /\ e > 3 /\ e <= Len(stripped) /\ stripped[e] = ":"
           /\ p > e + 1 /\ p <= Len(stripped) /\ stripped[p] = ":"
           /\ p + 2 <= Len(stripped) /\ Last(stripped) = "]"

\* ^#\s+(.+)$ (marks = "#") and ^##\s+(.+)$ (marks = "##") on a stripped line
HeadingMatch(stripped, marks) ==
    /\ StartsWith(stripped, marks)
    /\ Len(stripped) >= Len(marks) + 2
    /\ IsWhitespace(stripped[Len(marks) + 1])
\* group(1).strip() of a heading that matches
HeadingText(stripped, marks) == StripWs(SubSeq(stripped, Len(marks) + 1, Len(stripped)))

\* float(text) for the texts made of digits and a point; any other text of
\* the slides' alphabet raises ValueError
IsFloatText(text) ==
    /\ \A i \in 1..Len(text) : IsDigit(text[i]) \/ text[i] = "."
    /\ CountChar(text, ".") <= 1
    /\ \E i \in 1..Len(text) : IsDigit(text[i])
FloatOf(text) ==
    LET point == FirstIndex(text, ".", 1)
        whole == IF point = 0 THEN text ELSE SubSeq(text, 1, point - 1)
        frac == IF point = 0 THEN <<>> ELSE SubSeq(text, point + 1, Len(text))
    IN  Num(DigitsValue(whole \o frac), Pow10(Len(frac)))

\* -1.0, the sentinel for "use theme default"
Sentinel == Num(-1, 1)
\* float(mod.split(':')[1]), -1.0 on ValueError
ModifierValue(mod) ==
    LET text == SplitBy(mod, ":")[2]
    IN  IF IsFloatText(text) THEN FloatOf(text) ELSE Sentinel

Positions == {<<"l", "e", "f", "t">>, <<"r", "i", "g", "h", "t">>, <<"t", "o", "p">>, <<"b", "o", "t", "t", "o", "m">>}

\* The loop over the modifiers that sets the overlay, the blur and (in
\* parse_multi_region_markdown) the position; parse_slide_markdown runs the
\* same loop without the last branch and does not read the position of it.
RECURSIVE Filters(_, _, _)
Filters(mod_list, k, acc) ==
    IF k > Len(mod_list) THEN acc
    ELSE LET mod == mod_list[k]
         IN  Filters(mod_list, k + 1,
                 IF mod = <<"o", "v", "e", "r", "l", "a", "y">> THEN [acc EXCEPT !.overlay_opacity = Sentinel]
                 ELSE IF StartsWith(mod, <<"o", "v", "e", "r", "l", "a", "y", ":">>)
                 THEN [acc EXCEPT !.overlay_opacity = ModifierValue(mod)]
                 ELSE IF mod = <<"b", "l", "u", "r">> THEN [acc EXCEPT !.blur_radius = Sentinel]
                 ELSE IF StartsWith(mod, <<"b", "l", "u", "r", ":">>)
                 THEN [acc EXCEPT !.blur_radius = ModifierValue(mod)]
                 ELSE IF mod \in Positions THEN [acc EXCEPT !.position = mod]
                 ELSE acc)
NoFilters == [overlay_opacity |-> None, blur_radius |-> None, position |-> <<>>]

\* url if is_color else f'url({url})'
ImageUrl(url) ==
    IF StartsWith(url, <<"#">>) \/ HasSub(Lower(url), <<"g", "r", "a", "d", "i", "e", "n", "t">>) THEN url
    ELSE <<"u", "r", "l", "(">> \o url \o <<")">>

\* any(m == pos or m.startswith(pos + ':') for m in modifiers)
IsPosition(modifiers, pos) ==
    \E k \in 1..Len(modifiers) :
        modifiers[k] = pos \/ StartsWith(modifiers[k], pos \o <<":">>)

\* The branch of parse_slide_markdown for a line that is an image tag
SlideImageLine(r, i, line, bg_match) ==
    LET alt_text == Lower(bg_match[1])
        value == bg_match[2]
        modifiers == SplitWords(alt_text)
        is_background == \E k \in 1..Len(modifiers) : modifiers[k] = <<"b", "a", "c", "k", "g", "r", "o", "u", "n", "d">>
        is_left == IsPosition(modifiers, <<"l", "e", "f", "t">>)
        is_right == IsPosition(modifiers, <<"r", "i", "g", "h", "t">>)
        is_top == IsPosition(modifiers, <<"t", "o", "p">>)
        is_bottom == IsPosition(modifiers, <<"b", "o", "t", "t", "o", "m">>)
        is_split == is_left \/ is_right \/ is_top \/ is_bottom
        filters == Filters(modifiers, 1, NoFilters)
    IN  IF \/ is_background
           \/ is_split
           \/ (r.content_lines = <<>> /\ ~r.found_title /\ ~StartsWith(alt_text, <<"i", "n", "l", "i", "n", "e">>))
        THEN [r EXCEPT !.background = ImageUrl(value),
                       !.overlay_opacity = filters.overlay_opacity,
                       !.blur_radius = filters.blur_radius,
                       !.background_position =
                           IF is_left THEN <<"l", "e", "f", "t">>
                           ELSE IF is_right THEN <<"r", "i", "g", "h", "t">>
                           ELSE IF is_top THEN <<"t", "o", "p">>
                           ELSE IF is_bottom THEN <<"b", "o", "t", "t", "o", "m">>
                           ELSE @]
        ELSE [r EXCEPT !.images = Append(@, [modifier |-> alt_text, url |-> value,
                                              line |-> i - 1]),
                       !.content_lines = Append(@, line)]

\* while i < len(lines) and not lines[i].strip(): i += 1
RECURSIVE SkipBlank(_, _)
SkipBlank(lines, i) ==
    IF i <= Len(lines) /\ StripWs(lines[i]) = <<>> THEN SkipBlank(lines, i + 1) ELSE i

\* The loop of parse_slide_markdown over the lines.  A line that only
\* inline_match matches is appended to content_lines, as a regular line is.
RECURSIVE SlideLoop(_, _, _)
SlideLoop(lines, i, r) ==
    IF i > Len(lines) THEN r
    ELSE Let(StripWs(lines[i]), LAMBDA stripped :
         LET line == lines[i]
             name_match == NameMatch(stripped)
             bg_match == ImageMatch(stripped)
         IN  IF name_match # <<>>
             THEN SlideLoop(lines, i + 1, [r EXCEPT !.name = name_match[1]])
             ELSE IF StartsWith(stripped, <<"^">>)
             THEN SlideLoop(lines, i + 1, [r EXCEPT !.notes = AddNote(@, stripped)])
             ELSE IF StyleMatch(stripped)
             THEN SlideLoop(lines, i + 1, r)
             ELSE IF bg_match # <<>>
             THEN SlideLoop(lines, i + 1, SlideImageLine(r, i, line, bg_match))
             ELSE IF HeadingMatch(stripped, <<"#">>) /\ ~r.found_title
             THEN LET j == SkipBlank(lines, i + 1)
                      h2_match == j <= Len(lines) /\ HeadingMatch(StripWs(lines[j]), <<"#", "#">>)
                  IN  SlideLoop(lines, IF h2_match THEN j + 1 ELSE j,
                          [r EXCEPT !.title = HeadingText(stripped, <<"#">>),
                                    !.found_title = TRUE,
                                    !.subtitle =
                                        IF h2_match THEN HeadingText(StripWs(lines[j]), <<"#", "#">>)
                                        ELSE @])
             ELSE SlideLoop(lines, i + 1, [r EXCEPT !.content_lines = Append(@, line)]))

\* MarkdownParser.parse_slide_markdown: the entries of the result that
\* parse_multi_region_markdown reads
ParseSlideMarkdown(markdown) ==
    Let(SlideLoop(SplitBy(StripWs(markdown), "NL"), 1,
            [title |-> <<>>, subtitle |-> <<>>, background |-> <<>>,
             background_position |-> <<>>, overlay_opacity |-> None,
             blur_radius |-> None, content_lines |-> <<>>, found_title |-> FALSE,
             notes |-> <<>>, name |-> <<>>, images |-> <<>>]),
        LAMBDA r :
            [title |-> r.title, subtitle |-> r.subtitle, background |-> r.background,
             background_position |-> r.background_position,
             overlay_opacity |-> r.overlay_opacity, blur_radius |-> r.blur_radius,
             content |-> StripWs(JoinLines(r.content_lines)),
             notes |-> r.notes, name |-> r.name, images |-> r.images])

\* The first pass of parse_multi_region_markdown over the lines: the name,
\* the notes and image_lines, the <<line index, modifiers, url>> of the image
\* tags it does not skip as inline
RECURSIVE FirstPass(_, _, _)
FirstPass(lines, i, r) ==
    IF i > Len(lines) THEN r
    ELSE Let(StripWs(lines[i]), LAMBDA stripped :
         LET name_match == NameMatch(stripped)
             match == ImageMatch(stripped)
         IN  IF name_match # <<>>
             THEN FirstPass(lines, i + 1, [r EXCEPT !.name = name_match[1]])
             ELSE IF StartsWith(stripped, <<"^">>)
             THEN FirstPass(lines, i + 1, [r EXCEPT !.notes = AddNote(@, stripped)])
             ELSE IF match # <<>> /\ ~HasSub(Lower(match[1]), <<"i", "n", "l", "i", "n", "e">>)
             THEN FirstPass(lines, i + 1,
                      [r EXCEPT !.image_lines = Append(@, <<i, Lower(match[1]), match[2]>>)])
             ELSE FirstPass(lines, i + 1, r))

\* The region of parse_multi_region_markdown's result when it found at most
\* one image: the slide, as parse_slide_markdown reads it
SingleRegion(single) ==
    IF single.background # <<>>
    THEN [image |-> single.background, overlay_opacity |-> single.overlay_opacity,
          blur_radius |-> single.blur_radius, content |-> single.content,
          title |-> single.title, subtitle |-> single.subtitle]
    ELSE [image |-> <<>>, overlay_opacity |-> None, blur_radius |-> None,
          content |-> single.content, title |-> single.title,
          subtitle |-> single.subtitle]

\* The lines of a region: those after its image tag and before end_idx that
\* are not presenter notes
RegionLines(lines, line_idx, end_idx) ==
    LET NotNote(line) == ~StartsWith(StripWs(line), <<"^">>)
    IN  SelectSeq(SubSeq(lines, line_idx + 1, end_idx - 1), NotNote)

\* The loop that takes the title and the subtitle off the lines of a region
RECURSIVE RegionLoop(_, _, _)
RegionLoop(region_lines, k, r) ==
    IF k > Len(region_lines) THEN r
    ELSE Let(StripWs(region_lines[k]), LAMBDA stripped :
         LET line == region_lines[k]
         IN  IF HeadingMatch(stripped, <<"#">>) /\ r.title = <<>> /\ ~r.content_started
             THEN RegionLoop(region_lines, k + 1,
                      [r EXCEPT !.title = HeadingText(stripped, <<"#">>)])
             ELSE IF /\ HeadingMatch(stripped, <<"#", "#">>)
                     /\ r.title # <<>> /\ r.subtitle = <<>> /\ ~r.content_started
             THEN RegionLoop(region_lines, k + 1,
                      [r EXCEPT !.subtitle = HeadingText(stripped, <<"#", "#">>)])
             ELSE RegionLoop(region_lines, k + 1,
                      [r EXCEPT !.content_started = @ \/ stripped # <<>>,
                                !.final_content_lines = Append(@, line)]))

\* The region that starts at the image tag image_lines[idx]
Region(lines, image_lines, idx) ==
    LET line_idx == image_lines[idx][1]
        modifiers == image_lines[idx][2]
        url == image_lines[idx][3]
        end_idx == IF idx + 1 <= Len(image_lines) THEN image_lines[idx + 1][1]
                   ELSE Len(lines) + 1
    IN  Let(<<RegionLoop(RegionLines(lines, line_idx, end_idx), 1,
                  [title |-> <<>>, subtitle |-> <<>>, content_started |-> FALSE,
                   final_content_lines |-> <<>>]),
              Filters(SplitWords(modifiers), 1, NoFilters)>>,
            LAMBDA found :
                LET r == found[1]
                    filters == found[2]
                IN  [image |-> ImageUrl(url), modifiers |-> modifiers,
                     overlay_opacity |-> filters.overlay_opacity,
                     blur_radius |-> filters.blur_radius, position |-> filters.position,
                     content |-> StripWs(JoinLines(r.final_content_lines)),
                     title |-> r.title, subtitle |-> r.subtitle])

\* MarkdownParser.parse_multi_region_markdown
ParseMultiRegionMarkdown(markdown) ==
    Let(SplitBy(StripWs(markdown), "NL"), LAMBDA lines :
    Let(FirstPass(lines, 1, [name |-> <<>>, notes |-> <<>>, image_lines |-> <<>>]),
        LAMBDA first :
    LET image_lines == first.image_lines
        has_left_right ==
            \E k \in 1..Len(image_lines) :
                HasSub(image_lines[k][2], <<"l", "e", "f", "t">>) \/ HasSub(image_lines[k][2], <<"r", "i", "g", "h", "t">>)
        has_top_bottom ==
            \E k \in 1..Len(image_lines) :
                HasSub(image_lines[k][2], <<"t", "o", "p">>) \/ HasSub(image_lines[k][2], <<"b", "o", "t", "t", "o", "m">>)
    IN  IF Len(image_lines) <= 1
        THEN Let(ParseSlideMarkdown(markdown), LAMBDA single :
                 [regions |-> <<SingleRegion(single)>>,
                  direction |-> IF single.background_position \in {<<"t", "o", "p">>, <<"b", "o", "t", "t", "o", "m">>}
                                THEN "vertical" ELSE "horizontal",
                  notes |-> single.notes, name |-> single.name])
        ELSE [regions |-> [idx \in 1..Len(image_lines) |-> Region(lines, image_lines, idx)],
              direction |-> IF has_top_bottom /\ ~has_left_right
                            THEN "vertical" ELSE "horizontal",
              notes |-> first.notes, name |-> first.name]))

\* The slides: an optional first line, then up to MaxRegions blocks of an
\* image tag and the lines under it.
MaxRegions == 3
Alts ==
    {<<>>, <<"l", "e", "f", "t">>, <<"r", "i", "g", "h", "t">>, <<"t", "o", "p">>, <<"b", "o", "t", "t", "o", "m">>, <<"T", "o", "p">>, <<"l", "a", "p", "t", "o", "p">>, <<"t", "o", "p", " ", "c", "o", "p", "y", "r", "i", "g", "h", "t">>,
     <<"m", "a", "i", "n", "l", "i", "n", "e">>, <<"i", "n", "l", "i", "n", "e">>, <<"b", "a", "c", "k", "g", "r", "o", "u", "n", "d">>, <<"b", "l", "u", "r", " ", "o", "v", "e", "r", "l", "a", "y", ":", "0", ".", "5">>}
Urls == {<<"a", ".", "p", "n", "g">>, <<"#", "0", "0", "0">>, <<"g", "r", "a", "d", "i", "e", "n", "t", "(", "x", ")">>}
RegionBodies == {<<>>, <<<<"#", " ", "T", "i">>, <<"#", "#", " ", "S", "u">>, <<"t", "e", "x", "t">>>>, <<<<"t", "e", "x", "t">>, <<"^", " ", "n", "o", "t", "e">>>>}
FirstLines == {<<>>, <<<<"[", "N", "a", "m", "e", ":", " ", "x", "]">>>>, <<<<"[", ".", "t", "e", "x", "t", ":", "c", "o", "l", "o", "r", ":", " ", "r", "e", "d", "]">>>>, <<<<"i", "n", "t", "r", "o">>>>}
ColumnBody == <<<<"*", " ", "p">>>>
\* The lines of the slides handed to parse_slide_markdown
MaxSlideLines == 3
SlideLines ==
    {<<>>, <<"t", "e", "x", "t">>, <<"#", " ", "T">>, <<"#", " ", "U">>, <<"#", "#", " ", "S">>, <<"^", " ", "n">>, <<"[", "n", "a", "m", "e", ":", " ", "x", "]">>, <<"[", ".", "t", "e", "x", "t", ":", "c", "o", "l", "o", "r", ":", " ", "r", "e", "d", "]">>,
     <<"!", "[", "]", "(", "a", ".", "p", "n", "g", ")">>, <<"!", "[", "i", "n", "l", "i", "n", "e", "]", "(", "a", ".", "p", "n", "g", ")">>, <<"!", "[", "b", "l", "u", "r", " ", "i", "n", "l", "i", "n", "e", "]", "(", "a", ".", "p", "n", "g", ")">>, <<"!", "[", "l", "e", "f", "t", "]", "(", "a", ".", "p", "n", "g", ")">>,
     <<"!", "[", "b", "a", "c", "k", "g", "r", "o", "u", "n", "d", "]", "(", "#", "0", "0", "0", ")">>}

\* ![alt](url)
ImageTag(alt, url) == <<"!", "[">> \o alt \o <<"]", "(">> \o url \o <<")">>
Block(alt, url, body) == <<ImageTag(alt, url)>> \o body

InitMd ==
    /\ LoaderIdle
    /\ CtxIdle
    /\ EvalIdle
    /\ ThemeIdle
    /\ PathIdle
    /\ SearchIdle
    /\ LayoutIdle
    /\ LruIdle
    /\ DeckIdle
    /\ WatcherIdle
    /\ ViewerIdle
    /\ md_in = <<>>
    /\ md_out = <<>>

ParseMultiRegionMarkdownCall(markdown) ==
    /\ md_in' = <<"parse_multi_region_markdown", markdown>>
    /\ md_out' = Ok(ParseMultiRegionMarkdown(markdown))

ParseSlideMarkdownCall(markdown) ==
    /\ md_in' = <<"parse_slide_markdown", markdown>>
    /\ md_out' = Ok(ParseSlideMarkdown(markdown))

NextMd ==
    \/ /\ md_out = <<>>
       /\ \E first \in FirstLines, alt \in Alts, url \in Urls, body \in RegionBodies :
              /\ ParseMultiRegionMarkdownCall(JoinLines(first \o Block(alt, url, body)))
              /\ UNCHANGED nonMdVars
    \/ /\ md_out = <<>>
       /\ \E first \in FirstLines, a1 \in Alts, a2 \in Alts, url \in Urls,
             b1 \in RegionBodies, b2 \in RegionBodies :
              /\ ParseMultiRegionMarkdownCall(
                     JoinLines(first \o Block(a1, <<"b", ".", "p", "n", "g">>, b1) \o Block(a2, url, b2)))
              /\ UNCHANGED nonMdVars
    \/ /\ md_out = <<>>
       /\ \E alts \in [1..MaxRegions -> Alts] :
              /\ ParseMultiRegionMarkdownCall(
                     JoinLines(Block(alts[1], <<"a", ".", "p", "n", "g">>, ColumnBody)
                               \o Block(alts[2], <<"b", ".", "p", "n", "g">>, ColumnBody)
                               \o Block(alts[3], <<"c", ".", "p", "n", "g">>, ColumnBody)))
              /\ UNCHANGED nonMdVars
    \/ /\ md_out = <<>>
       /\ \E n \in 1..MaxSlideLines : \E lines \in [1..n -> SlideLines] :
              /\ ParseSlideMarkdownCall(JoinLines(lines))
              /\ UNCHANGED nonMdVars

\* The call that was made, and what it returned
ParsedBy(function) == md_out # <<>> /\ md_in[1] = function
Markdown == md_in[2]
Result == md_out[2]

SpecMd == InitMd /\ [][NextMd]_vars

\* The image tags of a slide that are not marked inline, in source order:
\* <<alt text, url>> of the lines that are an image tag ![alt](url) whose alt
\* text does not hold "inline".
RECURSIVE TagsFrom(_, _)
TagsFrom(lines, i) ==
    IF i > Len(lines) THEN <<>>
    ELSE LET tag == ImageMatch(StripWs(lines[i]))
         IN  (IF tag # <<>> /\ ~HasSub(Lower(tag[1]), <<"i", "n", "l", "i", "n", "e">>) THEN <<tag>> ELSE <<>>)
                 \o TagsFrom(lines, i + 1)
SourceTags(markdown) == TagsFrom(SplitBy(StripWs(markdown), "NL"), 1)

\* A tag has the modifier token: the token is one of the words of its alt
\* text, as written or in lower case.
HasToken(tag, token, lowered) ==
    LET tokens == SplitWords(IF lowered THEN Lower(tag[1]) ELSE tag[1])
    IN  \E k \in 1..Len(tokens) : tokens[k] = token
\* The direction the tokens of the tags ask for.
TokenDirection(tags, lowered) ==
    IF /\ \E k \in 1..Len(tags) :
              HasToken(tags[k], <<"t", "o", "p">>, lowered) \/ HasToken(tags[k], <<"b", "o", "t", "t", "o", "m">>, lowered)
       /\ ~\E k \in 1..Len(tags) :
              HasToken(tags[k], <<"l", "e", "f", "t">>, lowered) \/ HasToken(tags[k], <<"r", "i", "g", "h", "t">>, lowered)
    THEN "vertical" ELSE "horizontal"

\* C18: for a slide with N >= 2 image tags that are not marked inline,
\* parse_multi_region_markdown returns N regions, the k-th of them holding
\* the image of the k-th tag, and the direction is "vertical" if and only if
\* some tag has the modifier token top or bottom and no tag has the modifier
\* token left or right, "horizontal" otherwise (the tokens being the
\* whitespace-separated words of the alt text, compared as written or in
\* lower case).
C18_RegionsAndDirection ==
    (ParsedBy("parse_multi_region_markdown") /\ Len(SourceTags(Markdown)) >= 2) =>
        LET tags == SourceTags(Markdown)
        IN  /\ Len(Result.regions) = Len(tags)
            /\ \A k \in 1..Len(tags) : HasSub(Result.regions[k].image, tags[k][2])
            /\ Result.direction \in {TokenDirection(tags, TRUE), TokenDirection(tags, FALSE)}

\* The lines parse_slide_markdown walks over, and the kinds of line the
\* statements about it tell apart
SourceLines == SplitBy(StripWs(Markdown), "NL")
IsH1(line) == HeadingMatch(StripWs(line), <<"#">>)
IsH2(line) == HeadingMatch(StripWs(line), <<"#", "#">>)
IsDirective(line) ==
    \/ NameMatch(StripWs(line)) # <<>>
    \/ StartsWith(StripWs(line), <<"^">>)
    \/ StyleMatch(StripWs(line))
IsImageTag(line) == ImageMatch(StripWs(line)) # <<>>
\* A line of body text: not blank, no directive, no image tag, no heading
IsBodyText(line) ==
    /\ StripWs(line) # <<>>
    /\ ~IsDirective(line)
    /\ ~IsImageTag(line)
    /\ ~IsH1(line)
    /\ ~IsH2(line)
\* The index of the first '# heading' line, 0 if there is none
FirstH1 ==
    IF \E i \in 1..Len(SourceLines) : IsH1(SourceLines[i])
    THEN CHOOSE i \in 1..Len(SourceLines) :
             /\ IsH1(SourceLines[i])
             /\ \A j \in 1..(i - 1) : ~IsH1(SourceLines[j])
    ELSE 0
\* The line the title is taken from: the first H1, unless body text precedes it
TitleLine ==
    IF FirstH1 # 0 /\ ~\E j \in 1..(FirstH1 - 1) : IsBodyText(SourceLines[j])
    THEN FirstH1 ELSE 0
\* The line the subtitle is taken from: the first non-blank line after the
\* title line when it is a '## heading', 0 otherwise
SubtitleLine ==
    IF TitleLine = 0 THEN 0
    ELSE LET j == SkipBlank(SourceLines, TitleLine + 1)
         IN  IF j <= Len(SourceLines) /\ IsH2(SourceLines[j]) THEN j ELSE 0

\* C22: parse_slide_markdown takes the title only from the first '# heading'
\* line that has no line of body text before it (no title otherwise), the
\* subtitle only from a '## heading' that is the first non-blank line after
\* that title line, and every other H1 or H2 line stays in content.
C22_TitleBeforeContent ==
    ParsedBy("parse_slide_markdown") =>
        /\ Result.title =
               IF TitleLine = 0 THEN <<>> ELSE HeadingText(StripWs(SourceLines[TitleLine]), <<"#">>)
        /\ Result.subtitle =
               IF SubtitleLine = 0 THEN <<>> ELSE HeadingText(StripWs(SourceLines[SubtitleLine]), <<"#", "#">>)
        /\ \A i \in 1..Len(SourceLines) :
               ((IsH1(SourceLines[i]) \/ IsH2(SourceLines[i])) /\ i \notin {TitleLine, SubtitleLine})
                   => HasSub(Result.content, StripWs(SourceLines[i]))

\* The lower-cased words of the alt text of the image tag on line i
AltWords(i) == SplitWords(Lower(ImageMatch(StripWs(SourceLines[i]))[1]))
HasWord(i, word) == \E k \in 1..Len(AltWords(i)) : AltWords(i)[k] = word
\* The image tag on line i is recorded in images, with the 0-based index
\* of its line (it stays in content); it is consumed as background otherwise
Recorded(i) == \E k \in 1..Len(Result.images) : Result.images[k].line = i - 1
\* The '## heading' that is the first non-blank line after the first H1
FirstH2 ==
    IF FirstH1 = 0 THEN 0
    ELSE LET j == SkipBlank(SourceLines, FirstH1 + 1)
         IN  IF j <= Len(SourceLines) /\ IsH2(SourceLines[j]) THEN j ELSE 0
\* Line j counts as content: it is not blank, no directive, not the title or
\* the subtitle line, and no image tag that was consumed as background
CountsAsContent(j) ==
    /\ StripWs(SourceLines[j]) # <<>>
    /\ ~IsDirective(SourceLines[j])
    /\ j \notin {FirstH1, FirstH2}
    /\ IsImageTag(SourceLines[j]) => Recorded(j)
\* What makes the image tag on line i a background
IsBackgroundTag(i) ==
    \/ HasWord(i, <<"b", "a", "c", "k", "g", "r", "o", "u", "n", "d">>)
    \/ \E pos \in Positions : HasWord(i, pos)
    \/ /\ \A j \in 1..(i - 1) : ~CountsAsContent(j)
       /\ ~HasWord(i, <<"i", "n", "l", "i", "n", "e">>)

\* C23: an image tag line of parse_slide_markdown is consumed as background
\* (and not recorded in images) if and only if its alt text has the token
\* background, or a position token, or it is the first line that counts as
\* content and its alt text has no inline token.
C23_BackgroundTag ==
    ParsedBy("parse_slide_markdown") =>
        \A i \in 1..Len(SourceLines) :
            IsImageTag(SourceLines[i]) => (~Recorded(i) <=> IsBackgroundTag(i))

\* The lines of a slide that carry body text for the regions: not blank, no
\* image tag, no ^ note, no [name: ...] directive
IsRegionText(line) ==
    /\ StripWs(line) # <<>>
    /\ ~IsImageTag(line)
    /\ ~StartsWith(StripWs(line), <<"^">>)
    /\ NameMatch(StripWs(line)) = <<>>
RECURSIVE TextsFrom(_, _)
TextsFrom(lines, i) ==
    IF i > Len(lines) THEN <<>>
    ELSE (IF IsRegionText(lines[i]) THEN <<StripWs(lines[i])>> ELSE <<>>) \o TextsFrom(lines, i + 1)
\* The texts a region holds: its title and subtitle as headings and the
\* lines of its content
TextsOfRegion(region) ==
    (IF region.title # <<>> THEN <<<<"#", " ">> \o region.title>> ELSE <<>>)
        \o (IF region.subtitle # <<>> THEN <<<<"#", "#", " ">> \o region.subtitle>> ELSE <<>>)
        \o TextsFrom(SplitBy(region.content, "NL"), 1)
RECURSIVE TextsOfRegions(_, _)
TextsOfRegions(regions, k) ==
    IF k > Len(regions) THEN <<>>
    ELSE TextsOfRegion(regions[k]) \o TextsOfRegions(regions, k + 1)
\* How often a text occurs in a sequence of texts
Occurrences(texts, text) == Cardinality({k \in 1..Len(texts) : texts[k] = text})

\* C30: when parse_multi_region_markdown returns two or more regions, every
\* line of body text of the slide (not blank, no image tag, no ^ note, no
\* [name: ...] directive) is held by the regions as often as the slide has
\* it: as a title, a subtitle or a line of content of exactly one region.
C30_NoTextLost ==
    (ParsedBy("parse_multi_region_markdown") /\ Len(Result.regions) >= 2) =>
        LET source == TextsFrom(SourceLines, 1)
            kept == TextsOfRegions(Result.regions, 1)
        IN  \A k \in 1..Len(source) :
                Occurrences(kept, source[k]) = Occurrences(source, source[k])

(***************************************************************************)
(* LRUCache (src/stagdeck/theme/cache.py)                                  *)
(*                                                                         *)
(* lru is the cache: max_size and cache, the OrderedDict, a sequence of    *)
(* <<key, value>> in the order of the dictionary.  lru_used is the history *)
(* of the uses: the keys that are present, the least recently used first,  *)
(* a use being a set or a get that hit.  lru_ret is the last call: the     *)
(* operation, its key, what it returned, the cache and the history before *)
(* it, and the operation and the key of the call before it.                *)
(***************************************************************************)

MaxCacheSize == 2
CacheKeys == {"k1", "k2", "k3"}
CacheValues == {"v1", "v2"}

\* key in self._cache
InCache(cache, key) == \E i \in 1..Len(cache) : cache[i][1] = key
\* self._cache[key], for a key that is present
ItemOf(cache, key) == cache[CHOOSE i \in 1..Len(cache) : cache[i][1] = key][2]
\* del self._cache[key]
DelItem(cache, key) ==
    LET Other(item) == item[1] # key
    IN  SelectSeq(cache, Other)
\* OrderedDict.move_to_end(key), for a key that is present
NotMoved(cache, key) == cache
MoveToEnd(cache, key) == Append(DelItem(cache, key), <<key, ItemOf(cache, key)>>)
\* self._cache[key] = value: a key that is present keeps its place
SetItem(cache, key, value) ==
    IF InCache(cache, key)
    THEN [i \in 1..Len(cache) |-> IF cache[i][1] = key THEN <<key, value>> ELSE cache[i]]
    ELSE Append(cache, <<key, value>>)
\* while len(self._cache) > self.max_size: self._cache.popitem(last=False)
RECURSIVE Evict(_, _)
Evict(cache, max_size) ==
    IF Len(cache) > max_size THEN Evict(Tail(cache), max_size) ELSE cache

\* LRUCache.get: the cache after the call and the value returned
LruGet(cache, key, default) ==
    IF InCache(cache, key)
    THEN <<MoveToEnd(cache, key), ItemOf(cache, key)>>
    ELSE <<cache, default>>
\* LRUCache.set
LruSet(cache, max_size, key, value) ==
    Evict(SetItem(IF InCache(cache, key) THEN MoveToEnd(cache, key) ELSE cache, key, value),
          max_size)
\* LRUCache.has and LRUCache.__contains__
LruHas(cache, key) == InCache(cache, key)
\* LRUCache.delete: the cache after the call and the value returned
LruDelete(cache, key) ==
    IF InCache(cache, key) THEN <<DelItem(cache, key), TRUE>> ELSE <<cache, FALSE>>

\* The keys of a cache
KeysOf(cache) == {cache[i][1] : i \in 1..Len(cache)}
\* The history after a use of key, and after the keys that left the cache
\* are dropped from it
Used(history, key) ==
    LET Other(k) == k # key
    IN  Append(SelectSeq(history, Other), key)
Kept(history, cache) ==
    LET Present(k) == k \in KeysOf(cache)
    IN  SelectSeq(history, Present)

InitLru ==
    /\ LoaderIdle
    /\ CtxIdle
    /\ EvalIdle
    /\ ThemeIdle
    /\ PathIdle
    /\ SearchIdle
    /\ LayoutIdle
    /\ MdIdle
    /\ DeckIdle
    /\ WatcherIdle
    /\ ViewerIdle
    /\ \E max_size \in 0..MaxCacheSize : lru = [max_size |-> max_size, cache |-> <<>>]
    /\ lru_used = <<>>
    /\ lru_ret = <<>>

Call(op, key, ret) ==
    [op |-> op, key |-> key, ret |-> ret, cache |-> lru.cache, used |-> lru_used,
     prev |-> IF lru_ret = <<>> THEN None ELSE <<lru_ret.op, lru_ret.key>>]

LruGetCall(key) ==
    LET r == LruGet(lru.cache, key, None)
    IN  /\ lru' = [lru EXCEPT !.cache = r[1]]
        /\ lru_used' = IF InCache(lru.cache, key) THEN Used(lru_used, key) ELSE lru_used
        /\ lru_ret' = Call("get", key, r[2])

LruSetCall(key, value) ==
    LET cache == LruSet(lru.cache, lru.max_size, key, value)
    IN  /\ lru' = [lru EXCEPT !.cache = cache]
        /\ lru_used' = Kept(Used(lru_used, key), cache)
        /\ lru_ret' = Call("set", key, None)

LruHasCall(key) ==
    /\ lru_ret' = Call("has", key, LruHas(lru.cache, key))
    /\ UNCHANGED <<lru, lru_used>>

LruDeleteCall(key) ==
    LET r == LruDelete(lru.cache, key)
    IN  /\ lru' = [lru EXCEPT !.cache = r[1]]
        /\ lru_used' = Kept(lru_used, r[1])
        /\ lru_ret' = Call("delete", key, r[2])

LruClearCall ==
    /\ lru' = [lru EXCEPT !.cache = <<>>]
    /\ lru_used' = <<>>
    /\ lru_ret' = Call("clear", None, None)

NextLru ==
    \/ \E key \in CacheKeys : LruGetCall(key) /\ UNCHANGED nonLruVars
    \/ \E key \in CacheKeys, value \in CacheValues :
           LruSetCall(key, value) /\ UNCHANGED nonLruVars
    \/ \E key \in CacheKeys : LruHasCall(key) /\ UNCHANGED nonLruVars
    \/ \E key \in CacheKeys : LruDeleteCall(key) /\ UNCHANGED nonLruVars
    \/ LruClearCall /\ UNCHANGED nonLruVars

SpecLru == InitLru /\ [][NextLru]_vars

\* A set of a new key that overflows the cache: the key was absent and the
\* cache was full.
Overflowed ==
    /\ lru_ret # <<>>
    /\ lru_ret.op = "set"
    /\ ~InCache(lru_ret.cache, lru_ret.key)
    /\ Len(lru_ret.cache) = lru.max_size

\* C19: the cache never holds more than max_size entries, the history of
\* the uses holds the keys that are present, and a set of a new key that
\* overflows the cache evicts one entry, the least recently used of the keys
\* that were present and the new one; every other entry stays.
C19_StrictLru ==
    lru # <<>> =>
        /\ Len(lru.cache) <= lru.max_size
        /\ Cardinality(KeysOf(lru.cache)) = Len(lru.cache)
        /\ KeysOf(lru.cache) = {lru_used[i] : i \in 1..Len(lru_used)}
        /\ Overflowed =>
               LET present == Used(lru_ret.used, lru_ret.key)
               IN  /\ KeysOf(lru.cache) = {present[i] : i \in 2..Len(present)}
                   /\ \A k \in KeysOf(lru.cache) \ {lru_ret.key} :
                          ItemOf(lru.cache, k) = ItemOf(lru_ret.cache, k)

\* A get hit a key of a full cache of two entries, then a set of a new key
\* overflowed the cache: the key that was hit stays, the other one left.
C19_Witness ==
    /\ Overflowed
    /\ lru.max_size = 2
    /\ \E k \in KeysOf(lru_ret.cache) :
           /\ lru_ret.prev = <<"get", k>>
           /\ KeysOf(lru.cache) = {k, lru_ret.key}

(***************************************************************************)
(* SlideDeck.add, SlideDeck.insert and SlideDeck.replace                   *)
(* (src/stagdeck/slide_deck.py)                                            *)
(*                                                                         *)
(* slides is self.slides; a slide is a record of its identity (the number  *)
(* of the Slide object, in the order of creation), its name and its title. *)
(* deck_ret is the last call: the operation, its arguments, the exception  *)
(* it raised (None when it returned), the slides before it and the number  *)
(* of Slide objects created so far.  A keyword argument that is not passed *)
(* is NoArg.                                                               *)
(***************************************************************************)

MaxSlides == 3
MaxCreated == 4
NoArg == <<"no argument">>

\* str(n)
RECURSIVE DecimalText(_)
DecimalText(n) ==
    IF n < 10 THEN <<Digits[n + 1]>> ELSE DecimalText(n \div 10) \o <<Digits[(n % 10) + 1]>>

\* SlideDeck.get_slide_index, counted from 1, 0 for None
RECURSIVE SlideIndexFrom(_, _, _)
SlideIndexFrom(deck, name, i) ==
    IF i > Len(deck) THEN 0
    ELSE IF deck[i].name = name THEN i
    ELSE SlideIndexFrom(deck, name, i + 1)
GetSlideIndex(deck, name) == SlideIndexFrom(deck, name, 1)

\* The Slide that SlideDeck.add appends: the name is the name argument, else
\* the name of the [name: ...] directive, else slide_<len(self.slides)>
NamedSlide(deck, created, name, parsed_name, parsed_title) ==
    [id |-> created + 1,
     name |-> IF name # <<>> THEN name
              ELSE IF parsed_name # <<>> THEN parsed_name
              ELSE <<"s", "l", "i", "d", "e", "_">> \o DecimalText(Len(deck)),
     title |-> parsed_title]
\* The markdown is parsed as a multi-region slide first and, when it has one
\* region, as a single slide after that.
NewSlide(deck, created, markdown, name) ==
    IF markdown = <<>> THEN NamedSlide(deck, created, name, <<>>, <<>>)
    ELSE Let(ParseMultiRegionMarkdown(markdown), LAMBDA multi :
             IF Len(multi.regions) > 1
             THEN NamedSlide(deck, created, name, multi.name, <<>>)
             ELSE Let(ParseSlideMarkdown(markdown), LAMBDA parsed :
                      NamedSlide(deck, created, name, parsed.name, parsed.title)))

\* SlideDeck.add; name is '' when the argument is not passed
Add(deck, created, markdown, name) ==
    Append(deck, NewSlide(deck, created, markdown, IF name = NoArg THEN <<>> ELSE name))

\* list.insert(index, slide), the index counted from 1
InsertAt(deck, index, slide) ==
    SubSeq(deck, 1, index - 1) \o <<slide>> \o SubSeq(deck, index, Len(deck))
\* del list[index], the index counted from 1
DeleteAt(deck, index) == SubSeq(deck, 1, index - 1) \o SubSeq(deck, index + 1, Len(deck))

\* SlideDeck.insert
Insert(deck, created, markdown, before, after, name) ==
    IF (before # <<>>) = (after # <<>>)
    THEN Err("ValueError", "Exactly one of 'before' or 'after' must be specified")
    ELSE LET target_name == IF before # <<>> THEN before ELSE after
             target_idx == GetSlideIndex(deck, target_name)
             insert_idx == IF before # <<>> THEN target_idx ELSE target_idx + 1
             added == Add(deck, created, markdown, name)
         IN  IF target_idx = 0 THEN Err("ValueError", "Slide not found")
             ELSE Ok(InsertAt(Front(added), insert_idx, Last(added)))

\* replace() when add() is left to name the slide by the [name: ...] directive
ReplaceNamedByDirective(deck, created, name, markdown, name_arg) ==
    LET target_idx == GetSlideIndex(deck, name)
        added == Add(deck, created, markdown, NoArg)
    IN  IF target_idx = 0 THEN Err("ValueError", "Slide not found")
        ELSE Ok(InsertAt(Front(DeleteAt(added, target_idx)), target_idx, Last(added)))

\* SlideDeck.replace(name, markdown, **kwargs).  name is a parameter of the
\* method, so a call that passes a name keyword next to the positional name
\* raises TypeError before the body runs, and 'name' is never in kwargs: the
\* slide is always added under the name of the slide it replaces.
Replace(deck, created, name, markdown, name_arg) ==
    LET target_idx == GetSlideIndex(deck, name)
        added == Add(deck, created, markdown, name)
    IN  IF name_arg # NoArg
        THEN Err("TypeError", "replace() got multiple values for argument 'name'")
        ELSE IF target_idx = 0 THEN Err("ValueError", "Slide not found")
        ELSE Ok(InsertAt(Front(DeleteAt(added, target_idx)), target_idx, Last(added)))

SlideNames == {<<"a">>, <<"b">>}
SlideMarkdowns == {<<>>, <<"[", "n", "a", "m", "e", ":", " ", "b", "]", "NL", "#", " ", "T">>, <<"!", "[", "l", "e", "f", "t", "]", "(", "l", ")", "NL", "[", "n", "a", "m", "e", ":", " ", "a", "]", "NL", "!", "[", "r", "i", "g", "h", "t", "]", "(", "r", ")">>}

InitDeck ==
    /\ LoaderIdle
    /\ CtxIdle
    /\ EvalIdle
    /\ ThemeIdle
    /\ PathIdle
    /\ SearchIdle
    /\ LayoutIdle
    /\ MdIdle
    /\ LruIdle
    /\ WatcherIdle
    /\ ViewerIdle
    /\ slides = <<>>
    /\ deck_ret = [op |-> "SlideDeck", raised |-> None, slides |-> <<>>, created |-> 0]

AddCall(markdown, name) ==
    /\ slides' = Add(slides, deck_ret.created, markdown, name)
    /\ deck_ret' = [op |-> "add", markdown |-> markdown, name |-> name, raised |-> None,
                    slides |-> slides, created |-> deck_ret.created + 1]

InsertCall(markdown, before, after, name) ==
    \E r \in {Insert(slides, deck_ret.created, markdown, before, after, name)} :
        /\ slides' = IF IsErr(r) THEN slides ELSE r[2]
        /\ deck_ret' = [op |-> "insert", markdown |-> markdown, before |-> before,
                        after |-> after, name |-> name,
                        raised |-> IF IsErr(r) THEN <<r[2]>> ELSE None, slides |-> slides,
                        created |-> IF IsErr(r) THEN deck_ret.created
                                    ELSE deck_ret.created + 1]

ReplaceCall(target, markdown, name) ==
    \E r \in {Replace(slides, deck_ret.created, target, markdown, name)} :
        /\ slides' = IF IsErr(r) THEN slides ELSE r[2]
        /\ deck_ret' = [op |-> "replace", target |-> target, markdown |-> markdown,
                        name |-> name, raised |-> IF IsErr(r) THEN <<r[2]>> ELSE None,
                        slides |-> slides,
                        created |-> IF IsErr(r) THEN deck_ret.created
                                    ELSE deck_ret.created + 1]

NextDeck ==
    \/ /\ Len(slides) < MaxSlides /\ deck_ret.created < MaxCreated
       /\ \E markdown \in SlideMarkdowns, name \in SlideNames \cup {NoArg} :
              AddCall(markdown, name) /\ UNCHANGED nonDeckVars
    \/ /\ Len(slides) < MaxSlides /\ deck_ret.created < MaxCreated
       /\ \E markdown \in SlideMarkdowns, before \in SlideNames \cup {<<>>},
             after \in SlideNames \cup {<<>>}, name \in {<<"b">>, NoArg} :
              InsertCall(markdown, before, after, name) /\ UNCHANGED nonDeckVars
    \/ /\ deck_ret.created < MaxCreated
       /\ \E target \in SlideNames \cup {<<>>, <<"s", "l", "i", "d", "e", "_", "0">>}, markdown \in SlideMarkdowns,
             name \in {<<"b">>, NoArg} :
              ReplaceCall(target, markdown, name) /\ UNCHANGED nonDeckVars

SpecDeck == InitDeck /\ [][NextDeck]_vars

\* The index of the first slide of a deck that has the name, 0 when no slide has it.
FirstNamed(deck, name) ==
    IF \E i \in 1..Len(deck) : deck[i].name = name
    THEN CHOOSE i \in 1..Len(deck) :
             deck[i].name = name /\ \A j \in 1..(i - 1) : deck[j].name # name
    ELSE 0
\* The deck is the old one with one new slide at the index.
OneMore(deck, old, index) ==
    /\ Len(deck) = Len(old) + 1
    /\ \A j \in 1..Len(old) : old[j].id # deck[index].id
    /\ \A j \in 1..Len(old) : old[j] = deck[IF j < index THEN j ELSE j + 1]
\* The deck is the old one with a new slide in the place of the slide at the index.
OneNew(deck, old, index) ==
    /\ Len(deck) = Len(old)
    /\ \A j \in 1..Len(old) : old[j].id # deck[index].id
    /\ \A j \in 1..Len(old) : j # index => old[j] = deck[j]

MaxMtime == 3
MaxCallbacks == 2

InitWatch ==
    /\ LoaderIdle
    /\ CtxIdle
    /\ EvalIdle
    /\ ThemeIdle
    /\ PathIdle
    /\ SearchIdle
    /\ LayoutIdle
    /\ MdIdle
    /\ LruIdle
    /\ DeckIdle
    /\ ViewerIdle
    /\ fw = [running |-> FALSE, files |-> <<>>, callbacks |-> 0, pc |-> "new"]
    /\ fw_disk \in {[exists |-> e, mtime |-> 0] : e \in BOOLEAN}
    /\ fw_log = [calls |-> 0, stopped |-> FALSE, at_stop |-> 0, late |-> FALSE]

\* FileWatcher.watch
Watch ==
    /\ fw' = IF fw_disk.exists /\ fw.files = <<>>
             THEN [fw EXCEPT !.files = <<fw_disk.mtime>>]
             ELSE fw
    /\ UNCHANGED <<fw_disk, fw_log>>

\* FileWatcher.on_change
OnChange ==
    /\ fw' = [fw EXCEPT !.callbacks = @ + 1]
    /\ UNCHANGED <<fw_disk, fw_log>>

\* FileWatcher.start up to its first await: the flag is set, the loop is
\* entered and the coroutine sleeps.
StartBegin ==
    /\ fw' = [fw EXCEPT !.running = TRUE, !.pc = "sleep"]
    /\ fw_log' = [fw_log EXCEPT !.stopped = FALSE, !.late = FALSE]
    /\ UNCHANGED fw_disk

\* The file is seen as changed by the scan of lines 52-58.
Changed == fw.files # <<>> /\ fw_disk.exists /\ fw_disk.mtime > fw.files[1]

\* FileWatcher.start from the return of asyncio.sleep to the next await or
\* to the end: the scan of the files, then the test of the while loop.
StartWake ==
    /\ fw' = [fw EXCEPT !.files = IF Changed THEN <<fw_disk.mtime>> ELSE @,
                        !.pc = IF fw.running THEN "sleep" ELSE "done"]
    /\ fw_log' = IF Changed /\ fw.callbacks > 0
                 THEN [fw_log EXCEPT !.calls = @ + fw.callbacks,
                                     !.late = @ \/ (fw_log.stopped
                                                    /\ fw.files[1] >= fw_log.at_stop)]
                 ELSE fw_log
    /\ UNCHANGED fw_disk

\* FileWatcher.stop
Stop ==
    /\ fw' = [fw EXCEPT !.running = FALSE]
    /\ fw_log' = IF fw.pc = "sleep"
                 THEN [fw_log EXCEPT !.stopped = TRUE, !.at_stop = fw_disk.mtime]
                 ELSE fw_log
    /\ UNCHANGED fw_disk

\* The file is written: it exists and its modification time is later.
WriteFile ==
    /\ fw_disk' = [exists |-> TRUE, mtime |-> fw_disk.mtime + 1]
    /\ UNCHANGED <<fw, fw_log>>

\* The file is removed.
RemoveFile ==
    /\ fw_disk' = [fw_disk EXCEPT !.exists = FALSE]
    /\ UNCHANGED <<fw, fw_log>>

NextWatch ==
    \/ Watch /\ UNCHANGED nonWatcherVars
    \/ fw.callbacks < MaxCallbacks /\ OnChange /\ UNCHANGED nonWatcherVars
    \/ fw.pc = "new" /\ StartBegin /\ UNCHANGED nonWatcherVars
    \/ fw.pc = "sleep" /\ StartWake /\ UNCHANGED nonWatcherVars
    \/ Stop /\ UNCHANGED nonWatcherVars
    \/ fw_disk.mtime < MaxMtime /\ WriteFile /\ UNCHANGED nonWatcherVars
    \/ fw_disk.exists /\ RemoveFile /\ UNCHANGED nonWatcherVars

SpecWatch == InitWatch /\ [][NextWatch]_vars

\* C21: once stop() has been called on a started watcher, no callback is
\* invoked for a modification made to the watched file after that call,
\* wherever start() is in its loop when stop() is called.
C21_NoCallbackAfterStop == fw_log # <<>> => ~fw_log.late

(***************************************************************************)
(* ThemeLoader: loads that follow each other on one loader                 *)
(***************************************************************************)

\* The theme directory of a chain t1 -> ... -> tn and its tail, and a valid
\* theme without a parent next to it
ValidName == Names[9]
InitLoadAgain ==
    /\ \E n \in 1..MaxFiles :
          \E tail \in Tails(n) :
              files = ThemeDir(n, tail, [i \in 1..n |-> DefaultBody(i)])
                          @@ (ValidName :> Dict(DefaultBody(9)))
    /\ loading_stack = <<>>
    /\ calls = [t \in {1} |-> IdleCall]
    /\ CtxIdle
    /\ EvalIdle
    /\ ThemeIdle
    /\ PathIdle
    /\ SearchIdle
    /\ LayoutIdle
    /\ MdIdle
    /\ LruIdle
    /\ DeckIdle
    /\ WatcherIdle
    /\ ViewerIdle

SpecLoadAgain == InitLoadAgain /\ [][NextLoad]_vars

\* _load_with_inheritance run to its end on a loader nobody else uses: the
\* data it returns or the exception it raises
RECURSIVE LoadWithInheritance(_, _, _)
LoadWithInheritance(path, depth, stack) ==
    IF OnStack(path, stack) THEN Err("ThemeLoadError", "circular")
    ELSE IF DepthExceeded(depth) THEN Err("ThemeLoadError", "depth")
    ELSE IF files[path] = InvalidJson THEN Err("JSONDecodeError", "")
    ELSE IF ExtendsOf(files[path][2]) = "" THEN Ok(Dict(PopExtends(files[path][2])))
    ELSE Try(ResolveThemePath(ExtendsOf(files[path][2])),
             LAMBDA parent_path :
                 Try(LoadWithInheritance(parent_path[2], depth + 1, Append(stack, path)),
                     LAMBDA parent_data :
                         Ok(Dict(DeepMerge(parent_data[2][2], PopExtends(files[path][2]))))))
\* load_theme_data on a fresh ThemeLoader
FreshLoad(reference) ==
    Try(ResolveThemePath(reference), LAMBDA path : LoadWithInheritance(path[2], 0, <<>>))

\* What a finished load gave: the data or the exception
LoadOutcome(c) == IF c.st = "ok" THEN Ok(c.result) ELSE c.exc

\* C27: whenever load_theme_data has returned or raised, the loading stack
\* is empty, and the load, the first one or one that follows a load that
\* raised, gave what a fresh loader gives for the reference.
C27_StackEmptyAfterLoad ==
    \A t \in DOMAIN calls :
        Finished(calls[t]) =>
            /\ loading_stack = <<>>
            /\ LoadOutcome(calls[t]) = FreshLoad(calls[t].entry)

\* A load of the valid theme that succeeds after a load that ended in the
\* circular-inheritance error
C27_Witness ==
    \E t \in DOMAIN calls :
        /\ calls[t].st = "ok"
        /\ calls[t].loads = 2
        /\ calls[t].prev = Circular
        /\ calls[t].entry = ValidName
        /\ calls[t].result = Dict(DefaultBody(9))
        /\ loading_stack = <<>>

(***************************************************************************)
(* DeckViewer (src/stagdeck/viewer.py)                                     *)
(*                                                                         *)
(* viewer holds the deck (its slides, each with a name and a number of     *)
(* steps), current_index and current_step; vw_ret the call just made.      *)
(* _update_view changes nothing of these.                                  *)
(***************************************************************************)

\* Bounds of the viewer model.
MaxViewerSlides == 3
MaxSteps == 2

ViewerNames == {"a", "b"}
ViewerSlides == {[name |-> n, steps |-> k] : n \in ViewerNames, k \in 1..MaxSteps}
\* The decks the viewer is built with and the factory returns, the empty
\* deck among them
ViewerDecks == UNION {[1..n -> ViewerSlides] : n \in 0..MaxViewerSlides}
\* The arguments of go_to_slide and go_to_slide_by_name
GoIndexes == (-1)..MaxViewerSlides
GoSteps == (-1)..MaxSteps
NoStepName == "none"
StepNames == <<"step_0", "step_1", "step_2">>
StepNameArgs == {NoStepName} \cup {StepNames[s] : s \in 1..Len(StepNames)}
GoNames == ViewerNames \cup {"c"}

\* Slide.get_step_name(step) of a slide without step_names
GetStepName(step) == StepNames[step + 1]

\* min and max of two ints
Min2(x, y) == IF x < y THEN x ELSE y
Max2(x, y) == IF x > y THEN x ELSE y

\* slides[i] of a Python list: a negative index counts from the end
InRange(list, i) == -Len(list) <= i /\ i < Len(list)
Item(list, i) == IF i >= 0 THEN list[i + 1] ELSE list[Len(list) + i + 1]

IndexError == <<"IndexError">>

\* DeckViewer.current_slide: it is None for a deck without slides, and the
\* read of slides[current_index] raises for an index out of range
HasCurrentSlide(v) == v.deck # <<>>
CurrentSlideRaises(v) == v.deck # <<>> /\ ~InRange(v.deck, v.current_index)
CurrentSlide(v) == Item(v.deck, v.current_index)

\* DeckViewer(deck, deck_factory=...)
InitViewer ==
    /\ LoaderIdle
    /\ CtxIdle
    /\ EvalIdle
    /\ ThemeIdle
    /\ PathIdle
    /\ SearchIdle
    /\ LayoutIdle
    /\ MdIdle
    /\ LruIdle
    /\ DeckIdle
    /\ WatcherIdle
    /\ \E deck \in ViewerDecks :
           viewer = [deck |-> deck, current_index |-> 0, current_step |-> 0]
    /\ vw_ret = [op |-> "DeckViewer", raised |-> None]

ViewerCall(op, v, raised) ==
    /\ viewer' = v
    /\ vw_ret' = [op |-> op, raised |-> raised]

\* next_slide
NextSlideOf(v) ==
    IF v.current_index < Len(v.deck) - 1
    THEN [v EXCEPT !.current_index = @ + 1, !.current_step = 0]
    ELSE v
NextSlide == ViewerCall("next_slide", NextSlideOf(viewer), None)

\* previous_slide
PreviousSlide ==
    ViewerCall("previous_slide",
             IF viewer.current_index > 0
             THEN [viewer EXCEPT !.current_index = @ - 1, !.current_step = 0]
             ELSE viewer,
             None)

\* next_step
NextStep ==
    IF CurrentSlideRaises(viewer) THEN ViewerCall("next_step", viewer, IndexError)
    ELSE IF HasCurrentSlide(viewer) /\ viewer.current_step < CurrentSlide(viewer).steps - 1
    THEN ViewerCall("next_step", [viewer EXCEPT !.current_step = @ + 1], None)
    ELSE ViewerCall("next_step", NextSlideOf(viewer), None)

\* previous_step: current_index is written before slides[current_index]
\* is read
PreviousStep ==
    IF viewer.current_step > 0
    THEN ViewerCall("previous_step", [viewer EXCEPT !.current_step = @ - 1], None)
    ELSE IF viewer.current_index > 0
    THEN IF InRange(viewer.deck, viewer.current_index - 1)
         THEN ViewerCall("previous_step",
                       [viewer EXCEPT
                           !.current_index = @ - 1,
                           !.current_step = viewer.deck[viewer.current_index].steps - 1],
                       None)
         ELSE ViewerCall("previous_step", [viewer EXCEPT !.current_index = @ - 1], IndexError)
    ELSE ViewerCall("previous_step", viewer, None)

\* go_to_slide(index, step)
GoToSlideOf(v, index, step) ==
    IF 0 <= index /\ index < Len(v.deck)
    THEN [v EXCEPT !.current_index = index,
                   !.current_step = Max2(0, Min2(step, v.deck[index + 1].steps - 1))]
    ELSE v
GoToSlide(index, step) == ViewerCall("go_to_slide", GoToSlideOf(viewer, index, step), None)

\* The step of go_to_slide_by_name: the first step of the slide that has
\* the name, 0 if there is none or no name is given
StepOfName(slide, step_name) ==
    IF step_name # NoStepName /\ \E s \in 0..(slide.steps - 1) : GetStepName(s) = step_name
    THEN CHOOSE s \in 0..(slide.steps - 1) :
             /\ GetStepName(s) = step_name
             /\ \A r \in 0..(s - 1) : GetStepName(r) # step_name
    ELSE 0

\* go_to_slide_by_name(slide_name, step_name)
GoToSlideByName(slide_name, step_name) ==
    \E index \in {GetSlideIndex(viewer.deck, slide_name)} :
        IF index = 0 THEN ViewerCall("go_to_slide_by_name", viewer, None)
        ELSE ViewerCall("go_to_slide_by_name",
                      GoToSlideOf(viewer, index - 1, StepOfName(viewer.deck[index], step_name)),
                      None)

\* reload() with a deck factory that returns the deck
Reload(deck) ==
    IF CurrentSlideRaises(viewer) THEN ViewerCall("reload", viewer, IndexError)
    ELSE \E current_name \in {IF HasCurrentSlide(viewer) THEN CurrentSlide(viewer).name ELSE ""},
            index \in {GetSlideIndex(deck, IF HasCurrentSlide(viewer)
                                           THEN CurrentSlide(viewer).name ELSE "")} :
             ViewerCall("reload",
                 IF current_name = "" THEN [viewer EXCEPT !.deck = deck]
                 ELSE IF index # 0
                 THEN [viewer EXCEPT
                          !.deck = deck,
                          !.current_index = index - 1,
                          !.current_step = Min2(viewer.current_step, deck[index].steps - 1)]
                 ELSE [viewer EXCEPT
                          !.deck = deck,
                          !.current_index = Min2(viewer.current_index, Len(deck) - 1),
                          !.current_step = 0],
                 None)

NextViewer ==
    \/ NextSlide /\ UNCHANGED nonViewerVars
    \/ PreviousSlide /\ UNCHANGED nonViewerVars
    \/ NextStep /\ UNCHANGED nonViewerVars
    \/ PreviousStep /\ UNCHANGED nonViewerVars
    \/ \E index \in GoIndexes, step \in GoSteps :
           GoToSlide(index, step) /\ UNCHANGED nonViewerVars
    \/ \E slide_name \in GoNames, step_name \in StepNameArgs :
           GoToSlideByName(slide_name, step_name) /\ UNCHANGED nonViewerVars
    \/ \E deck \in ViewerDecks : Reload(deck) /\ UNCHANGED nonViewerVars

SpecViewer == InitViewer /\ [][NextViewer]_vars

\* C28: whenever the deck of the viewer has slides, current_index is an
\* index of the deck (0 <= current_index < number of slides) and
\* current_step a step of the current slide (0 <= current_step < steps).
C28_PositionInRange ==
    (viewer # <<>> /\ viewer.deck # <<>>) =>
        /\ 0 <= viewer.current_index
        /\ viewer.current_index < Len(viewer.deck)
        /\ 0 <= viewer.current_step
        /\ viewer.current_step < viewer.deck[viewer.current_index + 1].steps

(***************************************************************************)
(* SlideDeck: callers that pass pairwise-distinct explicit names           *)
(***************************************************************************)

\* The explicit names of the callers and the markdowns, one of them with a
\* [name: ...] directive
ExplicitNames == {<<"a">>, <<"s", "l", "i", "d", "e", "_", "1">>}
NamedMarkdowns == {<<>>, <<"[", "n", "a", "m", "e", ":", " ", "b", "]", "NL", "#", " ", "T">>}
\* The names of the slides of the deck
NamesOf(deck) == {deck[i].name : i \in 1..Len(deck)}
\* The explicit name a call passes: the name argument, else the name of the
\* [name: ...] directive, else none
ExplicitName(markdown, name) ==
    IF name # NoArg THEN name
    ELSE IF markdown = <<>> THEN <<>>
    ELSE ParseMultiRegionMarkdown(markdown).name
\* The call passes no explicit name, or one that no slide of the deck has
PassesNewName(markdown, name) ==
    ExplicitName(markdown, name) \notin NamesOf(slides)

\* add, insert and replace by callers whose explicit names differ from
\* each other and from every name in the deck
NextDeckNames ==
    \/ /\ Len(slides) < MaxSlides /\ deck_ret.created < MaxCreated
       /\ \E markdown \in NamedMarkdowns, name \in ExplicitNames \cup {NoArg} :
              /\ PassesNewName(markdown, name)
              /\ AddCall(markdown, name)
              /\ UNCHANGED nonDeckVars
    \/ /\ Len(slides) < MaxSlides /\ deck_ret.created < MaxCreated
       /\ \E markdown \in NamedMarkdowns, target \in NamesOf(slides), place \in {"before", "after"},
             name \in ExplicitNames \cup {NoArg} :
              /\ PassesNewName(markdown, name)
              /\ InsertCall(markdown, IF place = "before" THEN target ELSE <<>>,
                            IF place = "after" THEN target ELSE <<>>, name)
              /\ UNCHANGED nonDeckVars
    \/ /\ deck_ret.created < MaxCreated
       /\ \E target \in NamesOf(slides) :
              ReplaceCall(target, <<>>, NoArg) /\ UNCHANGED nonDeckVars

SpecDeckNames == InitDeck /\ [][NextDeckNames]_vars

\* C29: all slide names of the deck are pairwise distinct.
C29_NamesDistinct ==
    \A i \in 1..Len(slides) : \A j \in 1..Len(slides) :
        i # j => slides[i].name # slides[j].name

====
